---- MODULE Spec2Model ----
(***************************************************************************)
(* SikioDB storage engine: page codec, B+-tree nodes, page cache, WAL,     *)
(* checkpoint, recovery and cursor-based scans, modelled from src/src.     *)
(*                                                                         *)
(* Keys are byte strings of KeyLen bytes that differ only in their last    *)
(* byte, so key k stands for "KeyLen-1 padding bytes followed by byte k"   *)
(* and byte order is integer order.  A user value v is a byte string of    *)
(* ValLen(v) bytes whose content is identified by v.                       *)
(***************************************************************************)
EXTENDS Integers, Sequences, FiniteSets, TLC

\* ---------------------------------------------------------------- bounds
NumKeys == 5
MaxOps == 4
NumCrashKeys == 3
MaxCrashOps == 3
MaxCloses == 2
MaxKills == 1
MaxBatch == 2
MaxTxnOps == 2
MaxPrior == 2
MaxScanOps == 3
MaxClock == 1
NumTtlKeys == 2
MaxTtlOps == 3
MaxTtlClock == 2
ClockBits == 2
WordBits == 2
OpBits == 3
PadBits == 1
DataBits == 2
MaxBytes == 2
CacheCapacity == 2
MaxEvictOps == 4
NumCachePages == 3
NumReadKeys == 3
MaxReadOps == 3
NumTxnKeys == 2
MaxCommits == 2
NumOvfKeys == 3
MaxOvfOps == 3
NumCurKeys == 4
MaxCurWrites == 4
MaxCursorSteps == 6
MaxSeekSteps == 2
MaxValidOps == 2
NumStepKeys == 2
MaxStepWrites == 2
MaxShapeOps == 5
MaxSeqOps == 3
MaxFailWrites == 2
MaxFails == 1
MaxReaderEntries == 2
NumSeqKeys == 1
KeyLen == 1000

\* ------------------------------------------------------ program constants
PAGE_SIZE == 4096
PAGE_HEADER_SIZE == 24
PAGE_DATA_SIZE == PAGE_SIZE - PAGE_HEADER_SIZE
MAX_KEY_SIZE == 1024
MAX_VALUE_SIZE == 67108864
OVERFLOW_THRESHOLD == 1024
OVERFLOW_DATA_SIZE == PAGE_SIZE - 24
MIN_KEYS_PER_NODE == 2
CELL_POINTER_SIZE == 4
CHILD_POINTER_SIZE == 8
SPLIT_THRESHOLD == PAGE_DATA_SIZE - 64
OVERFLOW_MARKER_SIZE == 13
WAL_CHECKPOINT_THRESHOLD == 52428800
WAL_ENTRY_HEADER_SIZE == 24
METADATA_PAGE_ID_1 == 0
METADATA_PAGE_ID_2 == 1
DEFAULT_CACHE_SIZE == 256
READONLY_CACHE_SIZE == 128

\* ------------------------------------------------------------ input sets
Keys == 1..NumKeys
\* user values: 1 is short, 2 is the longest value that stays inline next
\* to a KeyLen key, 3 is promoted to an overflow chain
Values == {1, 2, 3}
\* a value longer than MAX_VALUE_SIZE and a key longer than MAX_KEY_SIZE
HugeValue == Cardinality(Values) + 1
\* a value of random bytes that fills several overflow pages, and a run of
\* equal bytes, which LZ4 shrinks to Lz4Len bytes
BigValue == Cardinality(Values) + 2
SoftValue == Cardinality(Values) + 3
\* a value of exactly MAX_VALUE_SIZE bytes
MaxValue == Cardinality(Values) + 4
Lz4Len == 48
LongKey == NumKeys + 1
ValLen(v) ==
    CASE v = 1 -> 10 [] v = 2 -> 1000 [] v = HugeValue -> MAX_VALUE_SIZE + 1
      [] v = BigValue -> 9000 [] v = SoftValue -> 8000
      [] v = MaxValue -> MAX_VALUE_SIZE
      [] OTHER -> 2000
KeyBytes(k) == IF k = LongKey THEN MAX_KEY_SIZE + 1 ELSE KeyLen

\* ------------------------------------------------------- sequence helpers
\* Vec::insert(pos, x) with a 0-based position
InsertAt(s, pos, x) == SubSeq(s, 1, pos) \o <<x>> \o SubSeq(s, pos + 1, Len(s))
\* Vec::remove(pos) with a 0-based position
RemoveAt(s, pos) == SubSeq(s, 1, pos) \o SubSeq(s, pos + 2, Len(s))
RECURSIVE SumSeq(_)
SumSeq(s) == IF s = <<>> THEN 0 ELSE Head(s) + SumSeq(Tail(s))
SetMin(S) == CHOOSE x \in S : \A y \in S : x <= y
\* the elements of a set of integers in ascending order
RECURSIVE Ascending(_)
Ascending(S) ==
    IF S = {} THEN <<>> ELSE <<SetMin(S)>> \o Ascending(S \ {SetMin(S)})
NoPage == [kind |-> "none"]

\* ---------------------------------------------------------- stored values
\* wrapped value: first byte 0x00 (RAW), then the user bytes
wrap_raw_value(v) == [t |-> "raw", a |-> 0, b |-> v]
\* wrapped value: first byte 0x01 (TTL), 8 bytes of expiry, then user bytes
wrap_ttl_value(v, expiry) == [t |-> "ttl", a |-> expiry, b |-> v]
\* 13-byte marker: 0xFF, start page (u64), total length (u32)
encode_overflow_marker(start_page, total_len) ==
    [t |-> "ovf", a |-> start_page, b |-> total_len]
is_overflow_marker(d) == d.t = "ovf"
\* byte length of a stored (wrapped or marker) value
StoredLen(d) ==
    CASE d.t = "raw" -> 1 + ValLen(d.b)
      [] d.t = "ttl" -> 9 + ValLen(d.b)
      [] OTHER -> OVERFLOW_MARKER_SIZE

\* compress(): inputs below 128 bytes are returned as they are; longer ones
\* get a one-byte algorithm tag: 0x01 and the LZ4 block when LZ4 shrinks the
\* input (SoftValue), else 0x00 and the input, one byte longer.
compress(w) ==
    IF StoredLen(w) < 128 THEN [alg |-> "asis", w |-> w, len |-> StoredLen(w)]
    ELSE IF w.b = SoftValue THEN [alg |-> "lz4", w |-> w, len |-> 1 + Lz4Len]
    ELSE [alg |-> "tag0", w |-> w, len |-> 1 + StoredLen(w)]
\* decompress(): tag 0x00 strips the tag, tag 0x01 gives back what LZ4
\* compressed; an untagged short image is read by its own first byte (0x00
\* of a RAW value strips one more byte, 0x01 is taken for LZ4 data and fails)
decompress(img) ==
    CASE img.alg \in {"tag0", "lz4"} -> [ok |-> TRUE, w |-> img.w]
      [] img.alg = "asis" /\ img.w.t = "raw" ->
            [ok |-> TRUE, w |-> [t |-> "stripped", a |-> 0, b |-> img.w.b]]
      [] OTHER -> [ok |-> FALSE, w |-> img.w]

\* ---------------------------------------------------------- B+-tree node
new_leaf(page_id) ==
    [page_id |-> page_id, is_leaf |-> TRUE, keys |-> <<>>, values |-> <<>>,
     children |-> <<>>]
new_internal(page_id) ==
    [page_id |-> page_id, is_leaf |-> FALSE, keys |-> <<>>, values |-> <<>>,
     children |-> <<>>]

CellsSize(n) ==
    LET \* serialized size of the cells of a node
        LeafCellLen(k, v) == 4 + KeyLen + StoredLen(v)
        InternalCellLen(k) == 2 + CHILD_POINTER_SIZE + KeyLen
    IN  IF n.is_leaf
        THEN SumSeq([i \in 1..Len(n.keys) |-> LeafCellLen(n.keys[i], n.values[i])])
        ELSE SumSeq([i \in 1..Len(n.keys) |-> InternalCellLen(n.keys[i])])

\* BTreeNode::to_page: one cell per key; the cell of an internal node holds
\* children[i] (0 if missing); the rightmost pointer is the last child and
\* is written only when the node has children.  ok is FALSE for
\* BTreeOverflow.
to_page(n) ==
    LET ptr_area == Len(n.keys) * CELL_POINTER_SIZE
                    + (IF n.is_leaf THEN 0 ELSE CHILD_POINTER_SIZE)
        cells == [i \in 1..Len(n.keys) |->
                    IF n.is_leaf
                    THEN [key |-> n.keys[i], val |-> n.values[i], child |-> 0]
                    ELSE [key |-> n.keys[i], val |-> NoPage,
                          child |-> IF i <= Len(n.children)
                                    THEN n.children[i] ELSE 0]]
    IN [ok |-> ptr_area + CellsSize(n) <= PAGE_DATA_SIZE,
        page |-> [kind |-> "page", page_id |-> n.page_id,
                  page_type |-> IF n.is_leaf THEN 2 ELSE 1,
                  cells |-> cells,
                  rightmost |-> IF ~n.is_leaf /\ n.children # <<>>
                                THEN n.children[Len(n.children)] ELSE 0]]

\* BTreeNode::from_page: keys (and values or left children) come from the
\* cells; the rightmost child is read only when item_count > 0 and the
\* stored pointer is not 0.
from_page(p) ==
    LET is_leaf == p.page_type = 2
        item_count == Len(p.cells)
        ks == [i \in 1..item_count |-> p.cells[i].key]
    IN IF is_leaf
       THEN [page_id |-> p.page_id, is_leaf |-> TRUE, keys |-> ks,
             values |-> [i \in 1..item_count |-> p.cells[i].val],
             children |-> <<>>]
       ELSE [page_id |-> p.page_id, is_leaf |-> FALSE, keys |-> ks,
             values |-> <<>>,
             children |-> [i \in 1..item_count |-> p.cells[i].child]
                          \o (IF item_count > 0 /\ p.rightmost # 0
                              THEN <<p.rightmost>> ELSE <<>>)]

\* find_key_position: binary search over the sorted keys, giving the index
\* of the key if present and its insertion point otherwise (0-based)
find_key_position(n, key) ==
    Cardinality({i \in 1..Len(n.keys) : n.keys[i] < key})
insert_at(n, pos, key, value) ==
    [n EXCEPT !.keys = InsertAt(n.keys, pos, key),
              !.values = InsertAt(n.values, pos, value)]
insert_internal(n, pos, key, right_child) ==
    [n EXCEPT !.keys = InsertAt(n.keys, pos, key),
              !.children = InsertAt(n.children, pos + 1, right_child)]
estimated_size(n) ==
    Len(n.keys) * CELL_POINTER_SIZE
    + (IF n.is_leaf THEN 0 ELSE CHILD_POINTER_SIZE) + CellsSize(n)
needs_split(n) == estimated_size(n) > SPLIT_THRESHOLD
\* split: left keeps the first mid keys; a leaf copies the first right key
\* up as separator, an internal node moves keys[mid] up
split(n) ==
    LET mid == Len(n.keys) \div 2
    IN IF n.is_leaf
       THEN [left |-> [n EXCEPT !.keys = SubSeq(n.keys, 1, mid),
                                !.values = SubSeq(n.values, 1, mid)],
             separator |-> n.keys[mid + 1],
             right |-> [new_leaf(0) EXCEPT
                          !.keys = SubSeq(n.keys, mid + 1, Len(n.keys)),
                          !.values = SubSeq(n.values, mid + 1, Len(n.values))]]
       ELSE [left |-> [n EXCEPT !.keys = SubSeq(n.keys, 1, mid),
                                !.children = SubSeq(n.children, 1, mid + 1)],
             separator |-> n.keys[mid + 1],
             right |-> [new_internal(0) EXCEPT
                          !.keys = SubSeq(n.keys, mid + 2, Len(n.keys)),
                          !.children = SubSeq(n.children, mid + 2,
                                              Len(n.children))]]
is_underflow(n) == Len(n.keys) < MIN_KEYS_PER_NODE
can_lend(n) == Len(n.keys) > MIN_KEYS_PER_NODE

borrow_from_left(self, left, parent_key) ==
    IF self.is_leaf
    THEN LET n == Len(left.keys)
             me == [self EXCEPT !.keys = <<left.keys[n]>> \o self.keys,
                                !.values = <<left.values[n]>> \o self.values]
         IN [self |-> me,
             sibling |-> [left EXCEPT !.keys = SubSeq(left.keys, 1, n - 1),
                                      !.values = SubSeq(left.values, 1, n - 1)],
             parent_key |-> me.keys[1]]
    ELSE LET n == Len(left.keys)
             c == Len(left.children)
         IN [self |-> [self EXCEPT !.keys = <<parent_key>> \o self.keys,
                                   !.children = <<left.children[c]>>
                                                \o self.children],
             sibling |-> [left EXCEPT !.keys = SubSeq(left.keys, 1, n - 1),
                                      !.children = SubSeq(left.children, 1,
                                                          c - 1)],
             parent_key |-> left.keys[n]]
\* a borrow from the right sibling that leaves the separator as it was
borrow_from_right_stale(self, right, parent_key) ==
    [self |-> [self EXCEPT !.keys = self.keys \o <<right.keys[1]>>,
                           !.values = self.values \o <<right.values[1]>>],
     sibling |-> [right EXCEPT !.keys = Tail(right.keys),
                               !.values = Tail(right.values)],
     parent_key |-> parent_key]
\* borrow_from_right: a leaf takes the first cell of right and the separator
\* becomes the next key of right; an internal node takes the separator and
\* the first child of right, whose first key moves up
borrow_from_right(self, right, parent_key) ==
    IF self.is_leaf
    THEN [self |-> [self EXCEPT !.keys = self.keys \o <<right.keys[1]>>,
                                !.values = self.values \o <<right.values[1]>>],
          sibling |-> [right EXCEPT !.keys = Tail(right.keys),
                                    !.values = Tail(right.values)],
          parent_key |-> right.keys[2]]
    ELSE [self |-> [self EXCEPT !.keys = self.keys \o <<parent_key>>,
                                !.children = self.children
                                             \o <<right.children[1]>>],
          sibling |-> [right EXCEPT !.keys = Tail(right.keys),
                                    !.children = Tail(right.children)],
          parent_key |-> right.keys[1]]
merge_with(self, right, separator) ==
    IF self.is_leaf
    THEN [self EXCEPT !.keys = self.keys \o right.keys,
                      !.values = self.values \o right.values]
    ELSE [self EXCEPT !.keys = (self.keys \o <<separator>>) \o right.keys,
                      !.children = self.children \o right.children]

\* ------------------------------------------------------- storage adapter
data_page_count(d) ==
    LET \* The data file is a map from page id to page image; a page id below the
        \* file size that was never written reads as zeros.
        MaxOf(S) == CHOOSE x \in S : \A y \in S : y <= x
    IN  IF DOMAIN d = {} THEN 0 ELSE MaxOf(DOMAIN d) + 1
ZeroBytes == [kind |-> "zero"]
read_page(d, page_id) ==
    IF page_id + 1 > data_page_count(d) THEN [ok |-> FALSE, bytes |-> ZeroBytes]
    ELSE [ok |-> TRUE,
          bytes |-> IF page_id \in DOMAIN d THEN d[page_id] ELSE ZeroBytes]
write_page(d, page_id, bytes) ==
    [p \in DOMAIN d \cup {page_id} |-> IF p = page_id THEN bytes ELSE d[p]]

\* Page::from_bytes: a node image verifies; an all-zero image has stored
\* checksum 0 and is accepted as a page of type 0 with no items; in an
\* overflow or metadata image bytes 16..20 hold data_length / next_page_id,
\* which is read as a non-zero checksum that does not match; a torn image
\* fails its checksum.
PageFromBytes(b) ==
    CASE b.kind = "page" -> [ok |-> TRUE, page |-> b]
      [] b.kind = "zero" ->
            [ok |-> TRUE,
             page |-> [kind |-> "page", page_id |-> 0, page_type |-> 0,
                       cells |-> <<>>, rightmost |-> 0]]
      [] OTHER -> [ok |-> FALSE, page |-> NoPage]

\* ------------------------------------------------------------ page cache
\* PageCache c: c.pages maps the id of every page held, in the LRU `pages`
\* or in `spilled`, to the page; c.order lists the ids in the LRU, least
\* recently used first, and c.cap is its capacity; c.dirty is dirty_set.
\* The spilled pages are the pages held outside the LRU.  An entry's dirty
\* flag is set exactly when its id is in dirty_set: insert and clear_dirty,
\* the only calls the engine makes that write either, write both.
\* c.unsaved is history: the id of every page inserted as dirty since the
\* last checkpoint and not written to the data file by it, with the page
\* of the last such insert.
with_capacity(max_pages) ==
    [pages |-> [x \in {} |-> NoPage], order |-> <<>>, cap |-> max_pages,
     dirty |-> {}, unsaved |-> [x \in {} |-> NoPage]]
InLru(c, page_id) == \E i \in 1..Len(c.order) : c.order[i] = page_id
\* LruCache::get and LruCache::push of a key it holds: most recently used;
\* LruCache::push of a new key: appended
Promote(order, page_id) ==
    SelectSeq(order, LAMBDA x : x # page_id) \o <<page_id>>
\* PageCache::get of a page held: found in the LRU it is promoted, found in
\* spilled nothing moves
cache_get(c, page_id) ==
    [c EXCEPT !.order = IF InLru(c, page_id) THEN Promote(@, page_id) ELSE @]
\* an eviction that drops the least recently used entry, dirty or clean
EvictedDropping(c) ==
    IF Len(c.order) <= c.cap THEN c
    ELSE [c EXCEPT !.order = Tail(@),
                   !.pages = [p \in DOMAIN @ \ {Head(c.order)} |-> @[p]]]
\* the end of LruCache::push and of PageCache::insert: an LRU pushed beyond
\* its capacity gives up its least recently used entry, which moves to
\* spilled when it is dirty and is dropped when it is clean (its id is not
\* in dirty_set)
Evicted(c) ==
    IF Len(c.order) <= c.cap THEN c
    ELSE [c EXCEPT !.order = Tail(@),
                   !.pages = IF Head(c.order) \in c.dirty THEN @
                             ELSE [p \in DOMAIN @ \ {Head(c.order)} |-> @[p]]]
\* PageCache::insert: the page leaves spilled and is pushed into the LRU
cache_insert(c, page, dirty) ==
    Evicted([c EXCEPT !.pages = (page.page_id :> page) @@ @,
                      !.dirty = IF dirty THEN @ \cup {page.page_id}
                                ELSE @ \ {page.page_id},
                      !.order = Promote(@, page.page_id),
                      !.unsaved = IF dirty THEN (page.page_id :> page) @@ @
                                  ELSE @])
\* a clear_dirty that keeps the spilled pages
clear_dirty_keeping(c) == [c EXCEPT !.dirty = {}]
\* PageCache::clear_dirty: no page is dirty, spilled is emptied
clear_dirty(c) ==
    [c EXCEPT !.dirty = {},
              !.pages = [p \in {q \in DOMAIN @ : InLru(c, q)} |-> @[p]]]

\* ------------------------------------------- page cache, entry by entry
\* PageCache with the dirty flag of each CacheEntry: c.pages is the LRU
\* (page id -> entry, c.order its ids, least recently used first, c.cap its
\* capacity), c.spilled the spill map and c.dirty_set the dirty-id set.  An
\* entry is the record of its page and its dirty flag.
PageCache_with_capacity(max_pages) ==
    [pages |-> <<>>, order |-> <<>>, cap |-> max_pages, spilled |-> <<>>,
     dirty_set |-> {}]
Without(f, x) == [y \in DOMAIN f \ {x} |-> f[y]]
CacheEntry(page, dirty) == [page |-> page, dirty |-> dirty]
\* get: a hit in the LRU makes the entry the most recently used
PageCache_get(c, page_id) ==
    IF page_id \in DOMAIN c.pages
    THEN [c EXCEPT !.order = Promote(@, page_id)]
    ELSE c
\* get_mut and mark_dirty: the entry, in the LRU or else in spilled, is
\* flagged dirty and its id added to the set
PageCache_mark_dirty(c, page_id) ==
    IF page_id \in DOMAIN c.pages
    THEN [c EXCEPT !.order = Promote(@, page_id),
                   !.pages[page_id].dirty = TRUE,
                   !.dirty_set = IF c.pages[page_id].dirty THEN @
                                 ELSE @ \cup {page_id}]
    ELSE IF page_id \in DOMAIN c.spilled
    THEN [c EXCEPT !.spilled[page_id].dirty = TRUE,
                   !.dirty_set = IF c.spilled[page_id].dirty THEN @
                                 ELSE @ \cup {page_id}]
    ELSE c
PageCache_get_mut(c, page_id) == PageCache_mark_dirty(c, page_id)
\* an insert that leaves the page in spilled
PageCache_insert_keeping(c, page, dirty) ==
    LET set == IF dirty THEN c.dirty_set \cup {page.page_id}
               ELSE c.dirty_set \ {page.page_id}
        pushed == [c EXCEPT !.dirty_set = set,
                            !.pages = (page.page_id :> CacheEntry(page, dirty)) @@ @,
                            !.order = Promote(@, page.page_id)]
        out_id == Head(pushed.order)
    IN  IF Len(pushed.order) <= c.cap THEN pushed
        ELSE IF pushed.pages[out_id].dirty
        THEN [pushed EXCEPT !.order = Tail(@),
                            !.pages = Without(@, out_id),
                            !.dirty_set = @ \cup {out_id},
                            !.spilled = (out_id :> pushed.pages[out_id]) @@ @]
        ELSE [pushed EXCEPT !.order = Tail(@),
                            !.pages = Without(@, out_id),
                            !.dirty_set = @ \ {out_id}]
\* insert: the id leaves spilled, the set follows the flag, and the entry is
\* pushed into the LRU; an id already there only gets the new entry; a full
\* LRU gives up its least recently used entry, to spilled when it is dirty
PageCache_insert(c, page, dirty) ==
    LET set == IF dirty THEN c.dirty_set \cup {page.page_id}
               ELSE c.dirty_set \ {page.page_id}
        pushed == [c EXCEPT !.spilled = Without(@, page.page_id),
                            !.dirty_set = set,
                            !.pages = (page.page_id :> CacheEntry(page, dirty)) @@ @,
                            !.order = Promote(@, page.page_id)]
        out_id == Head(pushed.order)
    IN  IF Len(pushed.order) <= c.cap THEN pushed
        ELSE IF pushed.pages[out_id].dirty
        THEN [pushed EXCEPT !.order = Tail(@),
                            !.pages = Without(@, out_id),
                            !.dirty_set = @ \cup {out_id},
                            !.spilled = (out_id :> pushed.pages[out_id]) @@ @]
        ELSE [pushed EXCEPT !.order = Tail(@),
                            !.pages = Without(@, out_id),
                            !.dirty_set = @ \ {out_id}]
\* mark_clean and take_dirty_page: a dirty entry, in the LRU or else in
\* spilled, loses its flag and its id leaves the set
PageCache_mark_clean(c, page_id) ==
    IF page_id \in DOMAIN c.pages
    THEN [c EXCEPT !.order = Promote(@, page_id),
                   !.pages[page_id].dirty = FALSE,
                   !.dirty_set = IF c.pages[page_id].dirty THEN @ \ {page_id}
                                 ELSE @]
    ELSE IF page_id \in DOMAIN c.spilled
    THEN [c EXCEPT !.spilled[page_id].dirty = FALSE,
                   !.dirty_set = IF c.spilled[page_id].dirty THEN @ \ {page_id}
                                 ELSE @]
    ELSE c
PageCache_take_dirty_page(c, page_id) == PageCache_mark_clean(c, page_id)
\* remove: the entry leaves the LRU or else spilled, a dirty one also the set
PageCache_remove(c, page_id) ==
    IF page_id \in DOMAIN c.pages
    THEN [c EXCEPT !.order = SelectSeq(@, LAMBDA x : x # page_id),
                   !.pages = Without(@, page_id),
                   !.dirty_set = IF c.pages[page_id].dirty THEN @ \ {page_id}
                                 ELSE @]
    ELSE IF page_id \in DOMAIN c.spilled
    THEN [c EXCEPT !.spilled = Without(@, page_id),
                   !.dirty_set = IF c.spilled[page_id].dirty THEN @ \ {page_id}
                                 ELSE @]
    ELSE c
PageCache_clear_dirty(c) ==
    [c EXCEPT !.pages = [x \in DOMAIN @ |-> [@[x] EXCEPT !.dirty = FALSE]],
              !.spilled = <<>>, !.dirty_set = {}]
PageCache_clear(c) ==
    [c EXCEPT !.pages = <<>>, !.order = <<>>, !.spilled = <<>>,
              !.dirty_set = {}]

\* ----------------------------------------------------------------- engine
\* The engine state threaded through the handlers: s.cache (the PageCache),
\* s.root, s.next, s.free (BTree), s.data (data file) and, as history,
\* s.reb (the rebalancing operations done).  A handler
\* that computes a value and then uses it several times is written as an
\* operator applied to that value.
allocate_page(s) ==
    IF s.free # <<>>
    THEN [s |-> [s EXCEPT !.free = SubSeq(s.free, 1, Len(s.free) - 1)],
          id |-> s.free[Len(s.free)]]
    ELSE [s |-> [s EXCEPT !.next = s.next + 1], id |-> s.next]
load_node(s, page_id) ==
    LET \* load_node on a cache miss: r is the result of read_page
        LoadPage(r) ==
            IF r.ok /\ PageFromBytes(r.bytes).ok
            THEN [s |-> [s EXCEPT !.cache =
                             cache_insert(@, PageFromBytes(r.bytes).page, FALSE)],
                  ok |-> TRUE, node |-> from_page(PageFromBytes(r.bytes).page)]
            ELSE [s |-> s, ok |-> FALSE, node |-> new_leaf(0)]
    IN  IF page_id \in DOMAIN s.cache.pages
        THEN [s |-> [s EXCEPT !.cache = cache_get(@, page_id)], ok |-> TRUE,
              node |-> from_page(s.cache.pages[page_id])]
        ELSE LoadPage(read_page(s.data, page_id))
\* save_node: r is the result of to_page
SavePage(s, r) ==
    IF r.ok THEN [s |-> [s EXCEPT !.cache = cache_insert(@, r.page, TRUE)],
                  ok |-> TRUE]
    ELSE [s |-> s, ok |-> FALSE]
save_node(s, node) == SavePage(s, to_page(node))
SaveTwo(s, a, b) ==
    LET \* save two nodes in order, stopping at the first failure
        SaveNext(s1) == IF ~s1.ok THEN s1 ELSE save_node(s1.s, b)
    IN  SaveNext(save_node(s, a))
\* results of insert_recursive: no split, or the separator and the page id
\* of the new right sibling
NoSplit(s, ok) ==
    [s |-> s, ok |-> ok, split |-> FALSE, separator |-> 0, right_id |-> 0]
AfterSave(sv, separator, right_id) ==
    [s |-> sv.s, ok |-> sv.ok, split |-> sv.ok /\ right_id # 0,
     separator |-> separator, right_id |-> right_id]
SaveOrSplit(s, n) ==
    LET \* save the two halves of a split node, the right one under a new page id
        SaveHalves(al, sp) ==
            AfterSave(SaveTwo(al.s, sp.left, [sp.right EXCEPT !.page_id = al.id]),
                      sp.separator, al.id)
    IN  IF needs_split(n) THEN SaveHalves(allocate_page(s), split(n))
        ELSE AfterSave(save_node(s, n), 0, 0)
\* the child an internal node descends into: right of an equal key
ChildIndex(node, pos, key) ==
    IF pos < Len(node.keys) /\ node.keys[pos + 1] = key THEN pos + 1 ELSE pos
RECURSIVE insert_recursive(_, _, _, _)
insert_recursive(s, page_id, key, value) ==
    LET \* after the child returned cr
        InsertUp(cr, node, child_idx) ==
            IF ~cr.ok THEN NoSplit(cr.s, FALSE)
            ELSE IF cr.split
            THEN SaveOrSplit(cr.s, insert_internal(node, child_idx,
                                                   cr.separator, cr.right_id))
            ELSE NoSplit(cr.s, TRUE)
        \* on the loaded node, pos being find_key_position(key)
        InsertInto(t, node, pos) ==
            IF node.is_leaf
            THEN SaveOrSplit(t, IF ChildIndex(node, pos, key) # pos
                                THEN [node EXCEPT !.values[pos + 1] = value]
                                ELSE insert_at(node, pos, key, value))
            ELSE IF ChildIndex(node, pos, key) >= Len(node.children)
            THEN NoSplit(t, FALSE)
            ELSE InsertUp(insert_recursive(t,
                              node.children[ChildIndex(node, pos, key) + 1],
                              key, value),
                          node, ChildIndex(node, pos, key))
        InsertLoaded(ld) ==
            IF ~ld.ok THEN NoSplit(ld.s, FALSE)
            ELSE InsertInto(ld.s, ld.node, find_key_position(ld.node, key))
    IN InsertLoaded(load_node(s, page_id))
apply_put_value(s, key, stored_value) ==
    LET \* apply_put_value after the root returned r: a split root gets a new
        \* internal root above it
        SetRoot(sv, id) ==
            IF sv.ok THEN [s |-> [sv.s EXCEPT !.root = id], ok |-> TRUE]
            ELSE [s |-> sv.s, ok |-> FALSE]
        NewRoot(al, root_id, separator, right_id) ==
            SetRoot(SavePage(al.s, to_page([new_internal(al.id) EXCEPT
                                              !.keys = <<separator>>,
                                              !.children = <<root_id, right_id>>])),
                    al.id)
        PutRoot(r, root_id) ==
            IF ~r.ok THEN [s |-> r.s, ok |-> FALSE]
            ELSE IF r.split
            THEN NewRoot(allocate_page(r.s), root_id, r.separator, r.right_id)
            ELSE [s |-> r.s, ok |-> TRUE]
    IN  PutRoot(insert_recursive(s, s.root, key, stored_value), s.root)

\* ------------------------------------------------------- overflow chains
\* number of overflow pages for an image of len bytes
\* a chain of one page, whatever the length
ChunkCountOne(len) == 1
ChunkCount(len) == (len + OVERFLOW_DATA_SIZE - 1) \div OVERFLOW_DATA_SIZE
\* allocate_page called n times: al is the state and the ids so far
RECURSIVE AllocateMany(_, _)
AllocateMany(al, n) ==
    LET AllocateNext(a, ids, more) ==
            AllocateMany([s |-> a.s, ids |-> Append(ids, a.id)], more)
    IN  IF n = 0 THEN al ELSE AllocateNext(allocate_page(al.s), al.ids, n - 1)
RECURSIVE WritePages(_, _)
WritePages(d, pages) ==
    IF pages = <<>> THEN d
    ELSE WritePages(write_page(d, Head(pages).page_id, Head(pages)),
                    Tail(pages))
\* write_overflow_chain: the pages are written straight to the data file
write_overflow_chain(s, img) ==
    LET \* the pages of a chain: one per chunk of at most OVERFLOW_DATA_SIZE bytes,
        \* linked in order, the last with next_page = 0
        ChainPages(ids) ==
            [i \in 1..Len(ids) |->
                [kind |-> "overflow", page_id |-> ids[i],
                 next_page |-> IF i < Len(ids) THEN ids[i + 1] ELSE 0,
                 img |-> img, off |-> (i - 1) * OVERFLOW_DATA_SIZE,
                 data_length |-> IF i < Len(ids) THEN OVERFLOW_DATA_SIZE
                                 ELSE img.len - (Len(ids) - 1) * OVERFLOW_DATA_SIZE]]
        WriteChain(al) ==
            [s |-> [al.s EXCEPT !.data = WritePages(al.s.data, ChainPages(al.ids))],
             ok |-> TRUE, start_page |-> al.ids[1], total_len |-> img.len]
    IN  IF img.len = 0 THEN [s |-> s, ok |-> FALSE, start_page |-> 0, total_len |-> 0]
        ELSE WriteChain(AllocateMany([s |-> s, ids |-> <<>>], ChunkCount(img.len)))
\* OverflowPage::from_bytes on the result r of read_page: an overflow image
\* verifies; zeros give an empty page with next_page 0; other images fail
OverflowFromBytes(r) ==
    CASE r.ok /\ r.bytes.kind = "overflow" -> [ok |-> TRUE, page |-> r.bytes]
      [] r.ok /\ r.bytes.kind = "zero" ->
            [ok |-> TRUE,
             page |-> [kind |-> "overflow", page_id |-> 0, next_page |-> 0,
                       img |-> NoPage, off |-> 0, data_length |-> 0]]
      [] OTHER -> [ok |-> FALSE, page |-> NoPage]
\* read_overflow_chain: follow next_page until 0 or until total_len bytes
\* were collected; chunks is the list of the pieces read
RECURSIVE read_overflow_chain(_, _, _, _)
read_overflow_chain(d, current_page_id, total_len, got) ==
    LET PrependChunk(page, rest) ==
            [ok |-> rest.ok,
             chunks |-> IF page.data_length = 0 THEN rest.chunks
                        ELSE <<page>> \o rest.chunks]
        ReadChunk(o) ==
            IF ~o.ok THEN [ok |-> FALSE, chunks |-> <<>>]
            ELSE PrependChunk(o.page,
                     read_overflow_chain(d, o.page.next_page, total_len,
                                         got + o.page.data_length))
    IN  IF current_page_id = 0 \/ got >= total_len THEN [ok |-> TRUE, chunks |-> <<>>]
        ELSE ReadChunk(OverflowFromBytes(read_page(d, current_page_id)))
\* the bytes read are the image img exactly when the pieces are the
\* consecutive chunks of img and total_len is its length
ChainIsImage(chunks, total_len) ==
    /\ chunks # <<>>
    /\ \A i \in 1..Len(chunks) :
          /\ chunks[i].img = chunks[1].img
          /\ chunks[i].off = (i - 1) * OVERFLOW_DATA_SIZE
    /\ chunks[1].img.len = total_len
    /\ Len(chunks) = ChunkCount(total_len)

\* ------------------------------------------------------------ put, delete
apply_put(s, key, value) ==
    LET \* apply_put after write_overflow_chain returned w
        PutMarker(w) ==
            IF ~w.ok THEN [s |-> w.s, ok |-> FALSE]
            ELSE apply_put_value(w.s, key,
                                 encode_overflow_marker(w.start_page, w.total_len))
    IN  IF StoredLen(value) > OVERFLOW_THRESHOLD
        THEN PutMarker(write_overflow_chain(s, compress(value)))
        ELSE apply_put_value(s, key, value)

DelRes(s, ok, deleted, underflow) ==
    [s |-> s, ok |-> ok, deleted |-> deleted, underflow |-> underflow]
RebRes(s, ok, parent) == [s |-> s, ok |-> ok, parent |-> parent]
rebalance_child(s, parent, child_idx) ==
    LET \* the nodes were saved: the operation op completed and left them
        \* with the key counts keys
        RebSaved(sv, new_parent, op, keys) ==
            RebRes([sv.s EXCEPT !.reb = IF sv.ok
                                        THEN Append(@, [op |-> op, keys |-> keys])
                                        ELSE @],
                   sv.ok, new_parent)
        MergeSaved(t, merged, new_parent, op) ==
            RebSaved(save_node(t, merged), new_parent, op, <<Len(merged.keys)>>)
        \* rebalance_child, in the order of the code: borrow from the left sibling,
        \* else from the right one, else merge into the left sibling, else merge
        \* the right sibling in.  child_idx is 0-based, b is the result of a borrow
        \* and key_idx the (1-based) parent key it replaces.
        Borrowed(t, b, key_idx) ==
            RebSaved(SaveTwo(t, b.sibling, b.self),
                     [parent EXCEPT !.keys[key_idx] = b.parent_key],
                     IF key_idx = child_idx THEN "borrow_from_left"
                     ELSE "borrow_from_right",
                     <<Len(b.sibling.keys), Len(b.self.keys)>>)
        MergeLeft(l2, child) ==
            IF ~l2.ok THEN RebRes(l2.s, FALSE, parent)
            ELSE MergeSaved(l2.s,
                            [merge_with(l2.node, child, parent.keys[child_idx])
                               EXCEPT !.page_id = parent.children[child_idx]],
                            [parent EXCEPT
                               !.keys = RemoveAt(parent.keys, child_idx - 1),
                               !.children = RemoveAt(parent.children, child_idx)],
                            "merge_with_left")
        MergeRight(r2, child) ==
            IF ~r2.ok THEN RebRes(r2.s, FALSE, parent)
            ELSE MergeSaved(r2.s,
                            merge_with(child, r2.node, parent.keys[child_idx + 1]),
                            [parent EXCEPT
                               !.keys = RemoveAt(parent.keys, child_idx),
                               !.children = RemoveAt(parent.children, child_idx + 1)],
                            "merge_with_right")
        Merge(t, child) ==
            IF child_idx > 0
            THEN MergeLeft(load_node(t, parent.children[child_idx]), child)
            ELSE IF child_idx < Len(parent.children) - 1
            THEN MergeRight(load_node(t, parent.children[child_idx + 2]), child)
            ELSE RebRes(t, TRUE, parent)
        TryRight(lr, child) ==
            IF ~lr.ok THEN RebRes(lr.s, FALSE, parent)
            ELSE IF can_lend(lr.node)
            THEN Borrowed(lr.s,
                          borrow_from_right(child, lr.node,
                                            parent.keys[child_idx + 1]),
                          child_idx + 1)
            ELSE Merge(lr.s, child)
        RebRight(t, child) ==
            IF child_idx < Len(parent.children) - 1
            THEN TryRight(load_node(t, parent.children[child_idx + 2]), child)
            ELSE Merge(t, child)
        TryLeft(ll, child) ==
            IF ~ll.ok THEN RebRes(ll.s, FALSE, parent)
            ELSE IF can_lend(ll.node)
            THEN Borrowed(ll.s,
                          borrow_from_left(child, ll.node,
                                           parent.keys[child_idx]),
                          child_idx)
            ELSE RebRight(ll.s, child)
        RebLeft(lc) ==
            IF ~lc.ok THEN RebRes(lc.s, FALSE, parent)
            ELSE IF child_idx > 0
            THEN TryLeft(load_node(lc.s, parent.children[child_idx]), lc.node)
            ELSE RebRight(lc.s, lc.node)
    IN  RebLeft(load_node(s, parent.children[child_idx + 1]))

RECURSIVE delete_recursive_rebalance(_, _, _)
delete_recursive_rebalance(s, page_id, key) ==
    LET DelSaved(sv, underflow) == DelRes(sv.s, sv.ok, TRUE, underflow)
        \* delete_recursive_rebalance after rebalance_child returned rb
        SaveParent(rb) ==
            IF ~rb.ok THEN DelRes(rb.s, FALSE, FALSE, FALSE)
            ELSE DelSaved(save_node(rb.s, rb.parent), is_underflow(rb.parent))
        \* delete_recursive_rebalance after the child returned cr
        DeleteUp(cr, node, child_idx) ==
            IF ~cr.ok THEN DelRes(cr.s, FALSE, FALSE, FALSE)
            ELSE IF ~cr.deleted THEN DelRes(cr.s, TRUE, FALSE, FALSE)
            ELSE SaveParent(IF cr.underflow THEN rebalance_child(cr.s, node, child_idx)
                            ELSE RebRes(cr.s, TRUE, node))
        \* the leaf with the cell at pos removed
        RemoveCell(node, pos) ==
            [node EXCEPT !.keys = RemoveAt(node.keys, pos),
                         !.values = RemoveAt(node.values, pos)]
        \* delete_recursive_rebalance on the loaded node
        DeleteIn(t, node, pos) ==
            IF node.is_leaf
            THEN IF ChildIndex(node, pos, key) # pos
                 THEN DelSaved(save_node(t, RemoveCell(node, pos)),
                               is_underflow(RemoveCell(node, pos)))
                 ELSE DelRes(t, TRUE, FALSE, FALSE)
            ELSE IF ChildIndex(node, pos, key) >= Len(node.children)
            THEN DelRes(t, TRUE, FALSE, FALSE)
            ELSE DeleteUp(delete_recursive_rebalance(t,
                              node.children[ChildIndex(node, pos, key) + 1], key),
                          node, ChildIndex(node, pos, key))
        DeleteLoaded(ld) ==
            IF ~ld.ok THEN DelRes(ld.s, FALSE, FALSE, FALSE)
            ELSE DeleteIn(ld.s, ld.node, find_key_position(ld.node, key))
    IN  DeleteLoaded(load_node(s, page_id))
apply_delete(s, key) ==
    LET \* apply_delete after the delete: a root that is an internal node with no
        \* key and one child is replaced by that child
        CollapseRoot(lr) ==
            IF ~lr.ok THEN [s |-> lr.s, ok |-> FALSE, deleted |-> FALSE]
            ELSE IF ~lr.node.is_leaf /\ lr.node.keys = <<>>
                    /\ Len(lr.node.children) = 1
            THEN [s |-> [lr.s EXCEPT !.root = lr.node.children[1]], ok |-> TRUE,
                  deleted |-> TRUE]
            ELSE [s |-> lr.s, ok |-> TRUE, deleted |-> TRUE]
        Deleted(r, root_id) ==
            IF ~r.ok THEN [s |-> r.s, ok |-> FALSE, deleted |-> FALSE]
            ELSE IF ~r.deleted THEN [s |-> r.s, ok |-> TRUE, deleted |-> FALSE]
            ELSE CollapseRoot(load_node(r.s, root_id))
    IN  Deleted(delete_recursive_rebalance(s, s.root, key), s.root)

\* ------------------------------------------------------------ point lookup
\* search_recursive: the stored cell value of key, if any
RECURSIVE search_recursive(_, _, _)
search_recursive(s, page_id, key) ==
    LET SearchIn(t, node, pos) ==
            IF node.is_leaf
            THEN [s |-> t, ok |-> TRUE, found |-> ChildIndex(node, pos, key) # pos,
                  value |-> IF ChildIndex(node, pos, key) # pos
                            THEN node.values[pos + 1] ELSE NoPage]
            ELSE IF ChildIndex(node, pos, key) >= Len(node.children)
            THEN [s |-> t, ok |-> TRUE, found |-> FALSE, value |-> NoPage]
            ELSE search_recursive(t, node.children[ChildIndex(node, pos, key) + 1],
                                  key)
        SearchLoaded(ld) ==
            IF ~ld.ok THEN [s |-> ld.s, ok |-> FALSE, found |-> FALSE, value |-> NoPage]
            ELSE SearchIn(ld.s, ld.node, find_key_position(ld.node, key))
    IN  SearchLoaded(load_node(s, page_id))
\* results of a lookup: a user value in Values, or one of
None == 0
Failed == -1
Garbage == -2
get_internal(s, key, now_ms) ==
    LET \* unwrap a RAW / TTL value as get_internal does
        UnwrapGet(w) ==
            CASE w.t = "raw" -> w.b
              [] w.t = "ttl" -> IF now_ms > w.a THEN None ELSE w.b
              [] OTHER -> Failed
        Unwrapped(dz) == IF ~dz.ok THEN Failed ELSE UnwrapGet(dz.w)
        \* the value behind an overflow marker, c being the chain read
        ResolveChain(c, total_len) ==
            IF ~c.ok THEN Failed
            ELSE IF c.chunks = <<>> THEN None
            ELSE IF ~ChainIsImage(c.chunks, total_len) THEN Garbage
            ELSE Unwrapped(decompress(c.chunks[1].img))
        \* the user value of a stored cell value
        ResolveValue(d, v) ==
            IF is_overflow_marker(v)
            THEN ResolveChain(read_overflow_chain(d, v.a, v.b, 0), v.b)
            ELSE UnwrapGet(v)
        GetFound(sr) ==
            [s |-> sr.s,
             result |-> IF ~sr.ok THEN Failed
                        ELSE IF ~sr.found THEN None
                        ELSE ResolveValue(sr.s.data, sr.value)]
    IN  GetFound(search_recursive(s, s.root, key))

\* ----------------------------------------------------------------- cursor
\* CursorState: the stack of (page, index) entries and the current cell
Entry(page_id, key_index) == [page_id |-> page_id, key_index |-> key_index]
NoValue == [t |-> "none", a |-> 0, b |-> 0]
Invalid(stack) ==
    [stack |-> stack, valid |-> FALSE, key |-> 0, value |-> NoValue]
AtCell(stack, node, idx) ==
    [stack |-> stack, valid |-> TRUE, key |-> node.keys[idx + 1],
     value |-> node.values[idx + 1]]
CurRes(s, ok, c) == [s |-> s, ok |-> ok, c |-> c]
Last(stack) == stack[Len(stack)]
Pop(stack) == SubSeq(stack, 1, Len(stack) - 1)
\* the top entry keeps its index
SetLastIndexKept(stack, idx) == stack
SetLastIndex(stack, idx) == [stack EXCEPT ![Len(stack)].key_index = idx]
\* descend_leftmost: push the path to the first cell below page_id; an empty
\* leaf or a childless internal node ends the cursor
RECURSIVE descend_leftmost(_, _, _)
descend_leftmost(s, stack, page_id) ==
    LET DescendIn(ld) ==
            IF ~ld.ok THEN CurRes(ld.s, FALSE, Invalid(stack))
            ELSE IF ld.node.is_leaf
            THEN IF ld.node.keys = <<>> THEN CurRes(ld.s, TRUE, Invalid(stack))
                 ELSE CurRes(ld.s, TRUE,
                             AtCell(Append(stack, Entry(page_id, 0)), ld.node, 0))
            ELSE IF ld.node.children = <<>> THEN CurRes(ld.s, TRUE, Invalid(stack))
            ELSE descend_leftmost(ld.s, Append(stack, Entry(page_id, 0)),
                                  ld.node.children[1])
    IN  DescendIn(load_node(s, page_id))
\* cursor_next_internal, the inner loop: pop exhausted parents, descend into
\* the next child of the first parent that has one
RECURSIVE ClimbLoop(_, _)
ClimbLoop(s, stack) ==
    LET ClimbAt(ld) ==
            IF ~ld.ok THEN CurRes(ld.s, FALSE, Invalid(stack))
            ELSE IF ld.node.is_leaf THEN ClimbLoop(ld.s, Pop(stack))
            ELSE IF Last(stack).key_index + 1 < Len(ld.node.children)
            THEN descend_leftmost(ld.s,
                                  SetLastIndex(stack, Last(stack).key_index + 1),
                                  ld.node.children[Last(stack).key_index + 2])
            ELSE ClimbLoop(ld.s, Pop(stack))
    IN  IF stack = <<>> THEN CurRes(s, TRUE, Invalid(stack))
        ELSE ClimbAt(load_node(s, Last(stack).page_id))
\* cursor_next_internal, the outer loop on the top entry of the stack
RECURSIVE NextLoop(_, _)
NextLoop(s, stack) ==
    LET NextAt(ld) ==
            IF ~ld.ok THEN CurRes(ld.s, FALSE, Invalid(stack))
            ELSE IF ~ld.node.is_leaf THEN NextLoop(ld.s, Pop(stack))
            ELSE IF Last(stack).key_index < Len(ld.node.keys)
            THEN CurRes(ld.s, TRUE, AtCell(stack, ld.node, Last(stack).key_index))
            ELSE ClimbLoop(ld.s, Pop(stack))
    IN  IF stack = <<>> THEN CurRes(s, TRUE, Invalid(stack))
        ELSE NextAt(load_node(s, Last(stack).page_id))
cursor_next_internal(s, c, increment_leaf) ==
    IF c.stack = <<>> THEN CurRes(s, TRUE, Invalid(c.stack))
    ELSE NextLoop(s, IF increment_leaf
                     THEN SetLastIndex(c.stack, Last(c.stack).key_index + 1)
                     ELSE c.stack)
\* cursor_seek_internal: descend to the leaf for key; past the leaf's last
\* cell the cursor moves on to the next leaf
RECURSIVE SeekLoop(_, _, _, _)
SeekLoop(s, stack, page_id, key) ==
    LET SeekIn(t, node, pos) ==
            IF node.is_leaf
            THEN IF pos < Len(node.keys)
                 THEN CurRes(t, TRUE,
                             AtCell(Append(stack, Entry(page_id, pos)), node, pos))
                 ELSE cursor_next_internal(
                          t, Invalid(Append(stack, Entry(page_id, pos))), FALSE)
            ELSE IF node.children = <<>> THEN CurRes(t, TRUE, Invalid(stack))
            ELSE IF ChildIndex(node, pos, key) >= Len(node.children)
            THEN CurRes(t, TRUE,
                        Invalid(Append(stack,
                                       Entry(page_id, ChildIndex(node, pos, key)))))
            ELSE SeekLoop(t, Append(stack, Entry(page_id, ChildIndex(node, pos, key))),
                          node.children[ChildIndex(node, pos, key) + 1], key)
        SeekLoaded(ld) ==
            IF ~ld.ok THEN CurRes(ld.s, FALSE, Invalid(stack))
            ELSE SeekIn(ld.s, ld.node,
                        find_key_position(ld.node, key))
    IN  SeekLoaded(load_node(s, page_id))
\* a seek that descends to the first cell, whatever the key
cursor_seek_leftmost(s, key, root_page) ==
    IF root_page = 0 THEN CurRes(s, TRUE, Invalid(<<>>))
    ELSE descend_leftmost(s, <<>>, root_page)
cursor_seek_internal(s, key, root_page) ==
    IF root_page = 0 THEN CurRes(s, TRUE, Invalid(<<>>))
    ELSE SeekLoop(s, <<>>, root_page, key)
\* cursor_first_internal: clear the cursor, descend to the first cell
cursor_first_internal(s, root_page) ==
    IF root_page = 0 THEN CurRes(s, TRUE, Invalid(<<>>))
    ELSE descend_leftmost(s, <<>>, root_page)
\* a descent that stops above page_id
descend_nowhere(s, stack, page_id) == CurRes(s, TRUE, Invalid(stack))
\* descend_rightmost: push the path to the last cell below page_id; an empty
\* leaf or a childless internal node ends the cursor
RECURSIVE descend_rightmost(_, _, _)
descend_rightmost(s, stack, page_id) ==
    LET DescendIn(ld) ==
            IF ~ld.ok THEN CurRes(ld.s, FALSE, Invalid(stack))
            ELSE IF ld.node.is_leaf
            THEN IF ld.node.keys = <<>> THEN CurRes(ld.s, TRUE, Invalid(stack))
                 ELSE CurRes(ld.s, TRUE,
                             AtCell(Append(stack,
                                           Entry(page_id, Len(ld.node.keys) - 1)),
                                    ld.node, Len(ld.node.keys) - 1))
            ELSE IF ld.node.children = <<>> THEN CurRes(ld.s, TRUE, Invalid(stack))
            ELSE descend_rightmost(
                     ld.s,
                     Append(stack, Entry(page_id, Len(ld.node.children) - 1)),
                     ld.node.children[Len(ld.node.children)])
    IN  DescendIn(load_node(s, page_id))
\* cursor_last_internal: clear the cursor, descend to the last cell
cursor_last_internal(s, root_page) ==
    IF root_page = 0 THEN CurRes(s, TRUE, Invalid(<<>>))
    ELSE descend_rightmost(s, <<>>, root_page)
\* cursor_prev_internal, the inner loop: pop parents whose first child was
\* visited, descend into the child before of the first parent that has one
RECURSIVE ClimbBackLoop(_, _)
ClimbBackLoop(s, stack) ==
    LET ClimbAt(ld) ==
            IF ~ld.ok THEN CurRes(ld.s, FALSE, Invalid(stack))
            ELSE IF ld.node.is_leaf THEN ClimbBackLoop(ld.s, Pop(stack))
            ELSE IF Last(stack).key_index > 0
            THEN descend_rightmost(ld.s,
                                   SetLastIndex(stack, Last(stack).key_index - 1),
                                   ld.node.children[Last(stack).key_index])
            ELSE ClimbBackLoop(ld.s, Pop(stack))
    IN  IF stack = <<>> THEN CurRes(s, TRUE, Invalid(stack))
        ELSE ClimbAt(load_node(s, Last(stack).page_id))
\* cursor_prev_internal, the outer loop on the top entry of the stack
RECURSIVE PrevLoop(_, _)
PrevLoop(s, stack) ==
    LET PrevAt(ld) ==
            IF ~ld.ok THEN CurRes(ld.s, FALSE, Invalid(stack))
            ELSE IF ~ld.node.is_leaf THEN PrevLoop(ld.s, Pop(stack))
            ELSE IF /\ Last(stack).key_index > 0
                    /\ Last(stack).key_index <= Len(ld.node.keys)
            THEN CurRes(ld.s, TRUE,
                        AtCell(SetLastIndex(stack, Last(stack).key_index - 1),
                               ld.node, Last(stack).key_index - 1))
            ELSE ClimbBackLoop(ld.s, Pop(stack))
    IN  IF stack = <<>> THEN CurRes(s, TRUE, Invalid(stack))
        ELSE PrevAt(load_node(s, Last(stack).page_id))
cursor_prev_internal(s, c) ==
    IF c.stack = <<>> THEN CurRes(s, TRUE, Invalid(c.stack))
    ELSE PrevLoop(s, c.stack)

\* ------------------------------------------------------------------ scans
KV(key, value) == [key |-> key, value |-> value]
ScanRes(s, ok, results) == [s |-> s, ok |-> ok, results |-> results]
\* the user value scan_range and scan_prefix_internal take from the bytes v:
\* RAW strips the type byte, TTL is dropped once expired, anything else
\* (an overflow marker included) gives nothing
UserValue(v, now_ms) ==
    CASE v.t = "raw" -> v.b
      [] v.t = "ttl" -> IF now_ms <= v.a THEN v.b ELSE None
      [] OTHER -> None
PushUser(results, key, user_value) ==
    IF user_value = None THEN results ELSE Append(results, KV(key, user_value))
\* scan_range: the loop over the cursor
RECURSIVE ScanLoop(_, _, _, _, _)
ScanLoop(cr, end_key, limit, results, now_ms) ==
    IF ~cr.ok THEN ScanRes(cr.s, FALSE, <<>>)
    ELSE IF ~cr.c.valid \/ Len(results) >= limit
    THEN ScanRes(cr.s, TRUE, results)
    ELSE IF cr.c.key > end_key THEN ScanRes(cr.s, TRUE, results)
    ELSE ScanLoop(cursor_next_internal(cr.s, cr.c, TRUE), end_key, limit,
                  PushUser(results, cr.c.key, UserValue(cr.c.value, now_ms)),
                  now_ms)
scan_range(s, start_key, end_key, limit, now_ms) ==
    ScanLoop(cursor_seek_internal(s, start_key, s.root), end_key, limit,
             <<>>, now_ms)

\* ------------------------------------------------------ read transaction
\* extract_value: the user value of a wrapped value at clock value now_ms
extract_value(w, now_ms) ==
    CASE w.t = "raw" -> w.b
      [] w.t = "ttl" -> IF now_ms > w.a THEN None ELSE w.b
      [] OTHER -> Garbage
\* process_stored_value: the user value of a cell value, read through its
\* overflow chain when it is a marker
process_stored_value(d, stored_value, now_ms) ==
    LET Decompressed(dz) == IF ~dz.ok THEN Failed ELSE extract_value(dz.w, now_ms)
        Chain(c, total_len) ==
            IF ~c.ok THEN Failed
            ELSE IF c.chunks = <<>> THEN None
            ELSE IF ~ChainIsImage(c.chunks, total_len) THEN Garbage
            ELSE Decompressed(decompress(c.chunks[1].img))
    IN  IF is_overflow_marker(stored_value)
        THEN Chain(read_overflow_chain(d, stored_value.a, stored_value.b, 0),
                   stored_value.b)
        ELSE extract_value(stored_value, now_ms)
\* ReadTransaction::get, the loop from current_page_id down: an internal
\* node is left through children[pos]
RECURSIVE GetLoop(_, _, _, _)
GetLoop(s, current_page_id, key, now_ms) ==
    LET GetIn(t, node, pos) ==
            IF node.is_leaf
            THEN [s |-> t,
                  result |-> IF pos < Len(node.keys) /\ node.keys[pos + 1] = key
                             THEN process_stored_value(t.data, node.values[pos + 1],
                                                       now_ms)
                             ELSE None]
            ELSE IF pos < Len(node.children)
            THEN GetLoop(t, node.children[pos + 1], key, now_ms)
            ELSE [s |-> t, result |-> None]
        GetLoaded(ld) ==
            IF ~ld.ok THEN [s |-> ld.s, result |-> Failed]
            ELSE GetIn(ld.s, ld.node, find_key_position(ld.node, key))
    IN  GetLoaded(load_node(s, current_page_id))
ReadTransaction_get(s, txn_root, key, now_ms) ==
    IF txn_root = 0 THEN [s |-> s, result |-> None]
    ELSE GetLoop(s, txn_root, key, now_ms)
\* ReadTransaction::scan: the loop over the cursor
RECURSIVE ReadScanLoop(_, _, _, _, _)
ReadScanLoop(cr, end_key, limit, results, now_ms) ==
    LET Pushed(user_value) ==
            IF user_value = Failed THEN ScanRes(cr.s, FALSE, <<>>)
            ELSE ReadScanLoop(cursor_next_internal(cr.s, cr.c, TRUE), end_key,
                              limit, PushUser(results, cr.c.key, user_value),
                              now_ms)
    IN  IF ~cr.ok THEN ScanRes(cr.s, FALSE, <<>>)
        ELSE IF ~cr.c.valid \/ Len(results) >= limit
        THEN ScanRes(cr.s, TRUE, results)
        ELSE IF cr.c.key > end_key THEN ScanRes(cr.s, TRUE, results)
        ELSE Pushed(process_stored_value(cr.s.data, cr.c.value, now_ms))
ReadTransaction_scan(s, txn_root, start_key, end_key, limit, now_ms) ==
    ReadScanLoop(cursor_seek_internal(s, start_key, txn_root), end_key, limit,
                 <<>>, now_ms)

\* ------------------------------------------ snapshot, read-only database
\* ReadSnapshot::process_stored_value: unlike the other readers it passes an
\* inline cell value through decompress() before extract_value.  decompress
\* takes the type byte for its tag: 0x00 (RAW) is dropped and extract_value
\* then reads the first user byte as the type byte, so what comes back is
\* the user value without its first byte, or nothing; 0x01 (TTL) sends the
\* expiry and the user bytes into the LZ4 decoder, which fails or yields
\* bytes that are not the value.  The possible outcomes are a set.
ReadSnapshot_process_stored_value(d, stored_value, now_ms) ==
    CASE is_overflow_marker(stored_value) ->
            {process_stored_value(d, stored_value, now_ms)}
      [] stored_value.t = "raw" -> {Garbage, None}
      [] stored_value.t = "ttl" -> {Failed, Garbage, None}
      [] OTHER -> {None}
\* the loop of ReadSnapshot::get and ReadOnlyDatabase::get down to the leaf:
\* an internal node is left through children[pos]; the cell value found
RECURSIVE LookupLoop(_, _, _)
LookupLoop(s, current_page_id, key) ==
    LET LookIn(t, node, pos) ==
            IF node.is_leaf
            THEN [s |-> t, ok |-> TRUE,
                  found |-> pos < Len(node.keys) /\ node.keys[pos + 1] = key,
                  value |-> IF pos < Len(node.keys) /\ node.keys[pos + 1] = key
                            THEN node.values[pos + 1] ELSE NoValue]
            ELSE IF pos < Len(node.children)
            THEN LookupLoop(t, node.children[pos + 1], key)
            ELSE [s |-> t, ok |-> TRUE, found |-> FALSE, value |-> NoValue]
        Looked(ld) ==
            IF ~ld.ok
            THEN [s |-> ld.s, ok |-> FALSE, found |-> FALSE, value |-> NoValue]
            ELSE LookIn(ld.s, ld.node, find_key_position(ld.node, key))
    IN  Looked(load_node(s, current_page_id))
\* ReadSnapshot::get with the engine's storage and cache: the outcomes
ReadSnapshot_get(s, root, key, now_ms) ==
    LET Found(r) ==
            [s |-> r.s,
             results |-> IF ~r.ok THEN {Failed}
                         ELSE IF ~r.found THEN {None}
                         ELSE ReadSnapshot_process_stored_value(r.s.data, r.value,
                                                                now_ms)]
    IN  IF root = 0 THEN [s |-> s, results |-> {None}]
        ELSE Found(LookupLoop(s, root, key))
\* ReadOnlyDatabase::open(storage, root_page_id): a cache of its own
ReadOnlyDatabase_open(d, root) ==
    [cache |-> with_capacity(READONLY_CACHE_SIZE), root |-> root, next |-> 0,
     free |-> <<>>, data |-> d, reb |-> <<>>]
\* ReadOnlyDatabase::get; process_value reads the type byte of an inline
\* value and of the decompressed chain as extract_value does
ReadOnlyDatabase_get(db0, key, now_ms) ==
    LET Found(r) ==
            IF ~r.ok THEN Failed
            ELSE IF ~r.found THEN None
            ELSE process_stored_value(r.s.data, r.value, now_ms)
    IN  IF db0.root = 0 THEN None ELSE Found(LookupLoop(db0, db0.root, key))

\* RangeBound
Unbounded == [kind |-> "Unbounded", key |-> 0]
Included(key) == [kind |-> "Included", key |-> key]
Excluded(key) == [kind |-> "Excluded", key |-> key]
is_before(bound, key) ==
    CASE bound.kind = "Unbounded" -> TRUE
      [] bound.kind = "Included" -> key >= bound.key
      [] OTHER -> key > bound.key
is_after(bound, key) ==
    CASE bound.kind = "Unbounded" -> TRUE
      [] bound.kind = "Included" -> key <= bound.key
      [] OTHER -> key < bound.key
key_in_range(key, start, end) == is_before(start, key) /\ is_after(end, key)
\* A prefix is the empty string, the KeyLen-1 padding bytes every key starts
\* with, or a whole key.  In byte order the empty string and the padding
\* come before every key, and the padding with its last byte incremented
\* comes after every key (the last byte of a key is below 256).
EmptyPrefix == [kind |-> "empty", key |-> 0]
PadPrefix == [kind |-> "pad", key |-> 0]
KeyPrefix(k) == [kind |-> "key", key |-> k]
PrefixBytes(prefix) ==
    CASE prefix.kind = "empty" -> -2
      [] prefix.kind = "pad" -> -1
      [] OTHER -> prefix.key
\* prefix_to_range: from the prefix, included, to the prefix with its last
\* byte incremented, excluded; the empty prefix has no end
prefix_to_range(prefix) ==
    [start |-> Included(PrefixBytes(prefix)),
     end |-> CASE prefix.kind = "empty" -> Unbounded
               [] prefix.kind = "pad" -> Excluded(256)
               [] OTHER -> Excluded(prefix.key + 1)]
get_value_resolved(d, stored) ==
    LET \* get_value_resolved: the bytes behind an overflow marker, decompressed when
        \* they decompress; any other stored value as it is
        ResolvedChain(c, total_len) ==
            IF ~c.ok THEN [ok |-> FALSE, w |-> NoValue]
            ELSE IF c.chunks = <<>> THEN [ok |-> TRUE, w |-> NoValue]
            ELSE IF ~ChainIsImage(c.chunks, total_len)
            THEN [ok |-> TRUE, w |-> [t |-> "garbage", a |-> 0, b |-> 0]]
            ELSE [ok |-> TRUE, w |-> decompress(c.chunks[1].img).w]
    IN  IF is_overflow_marker(stored)
        THEN ResolvedChain(read_overflow_chain(d, stored.a, stored.b, 0), stored.b)
        ELSE [ok |-> TRUE, w |-> stored]
\* collect_range: the cells of the subtree below page_id that lie in the
\* range, values resolved, in tree order
RECURSIVE collect_range(_, _, _, _, _)
RECURSIVE CollectCells(_, _, _, _, _, _)
CollectCells(s, node, i, start, end, results) ==
    LET CellResolved(v) ==
            IF ~v.ok THEN ScanRes(s, FALSE, results)
            ELSE CollectCells(s, node, i + 1, start, end,
                              Append(results, KV(node.keys[i + 1], v.w)))
    IN  IF i >= Len(node.keys) THEN ScanRes(s, TRUE, results)
        ELSE IF ~key_in_range(node.keys[i + 1], start, end)
        THEN CollectCells(s, node, i + 1, start, end, results)
        ELSE CellResolved(get_value_resolved(s.data, node.values[i + 1]))
RECURSIVE CollectChildren(_, _, _, _, _)
CollectChildren(r, node, i, start, end) ==
    LET \* the first child is skipped when the first separator is below the start
        should_descend ==
            IF i = 0
            THEN start.kind = "Unbounded"
                 \/ (i < Len(node.keys) /\ node.keys[i + 1] >= start.key)
            ELSE TRUE
        ChildCollected(cr) ==
            IF ~cr.ok THEN cr
            ELSE CollectChildren(cr, node, i + 1, start, end)
    IN  IF i >= Len(node.children) THEN r
        ELSE IF ~should_descend
        THEN CollectChildren(r, node, i + 1, start, end)
        ELSE ChildCollected(collect_range(r.s, node.children[i + 1], start, end,
                                          r.results))
collect_range(s, page_id, start, end, results) ==
    LET CollectLoaded(ld) ==
            IF ~ld.ok THEN ScanRes(ld.s, FALSE, results)
            ELSE IF ld.node.is_leaf
            THEN CollectCells(ld.s, ld.node, 0, start, end, results)
            ELSE CollectChildren(ScanRes(ld.s, TRUE, results), ld.node, 0, start, end)
    IN  CollectLoaded(load_node(s, page_id))
\* scan_prefix_internal: the resolved pairs of the prefix range, unwrapped
RECURSIVE CleanPairs(_, _)
CleanPairs(raw_pairs, now_ms) ==
    IF raw_pairs = <<>> THEN <<>>
    ELSE PushUser(<<>>, Head(raw_pairs).key,
                  UserValue(Head(raw_pairs).value, now_ms))
         \o CleanPairs(Tail(raw_pairs), now_ms)
scan_prefix_internal(s, prefix, now_ms) ==
    LET PrefixCleaned(r) ==
            IF ~r.ok THEN ScanRes(r.s, FALSE, <<>>)
            ELSE ScanRes(r.s, TRUE, CleanPairs(r.results, now_ms))
        RangeOf(range) ==
            PrefixCleaned(collect_range(s, s.root, range.start, range.end, <<>>))
    IN  RangeOf(prefix_to_range(prefix))

\* ------------------------------------------------------------------- WAL
new_put(sequence, key, value) ==
    [sequence |-> sequence, operation |-> "Put", key |-> key, value |-> value]
new_delete(sequence, key) ==
    [sequence |-> sequence, operation |-> "Delete", key |-> key, value |-> NoValue]
new_commit(sequence) ==
    [sequence |-> sequence, operation |-> "Commit", key |-> 0, value |-> NoValue]
\* an entry that WalEntry::from_bytes rejects (bad checksum, truncated
\* header or body, unknown operation)
BadEntry ==
    [sequence |-> 0, operation |-> "Bad", key |-> 0, value |-> NoValue]
\* byte size of a serialized entry
EntrySize(e) ==
    WAL_ENTRY_HEADER_SIZE
    + (IF e.operation \in {"Put", "Delete"} THEN KeyLen ELSE 0)
    + (IF e.operation = "Put" THEN StoredLen(e.value) ELSE 0)
wal_size(w) == SumSeq([i \in 1..Len(w) |-> EntrySize(w[i])])
\* a scan that steps over an entry that fails to parse and reads on
RECURSIVE ScanWalSkipping(_, _, _)
ScanWalSkipping(w, committed_ops, pending_ops) ==
    IF w = <<>> THEN committed_ops
    ELSE CASE Head(w).operation = "Checkpoint" ->
                  ScanWalSkipping(Tail(w), <<>>, <<>>)
           [] Head(w).operation = "Commit" ->
                  ScanWalSkipping(Tail(w), committed_ops \o pending_ops, <<>>)
           [] Head(w).operation \in {"Put", "Delete"} ->
                  ScanWalSkipping(Tail(w), committed_ops,
                                  Append(pending_ops, Head(w)))
           [] OTHER -> ScanWalSkipping(Tail(w), committed_ops, pending_ops)
\* WalReader + the scan loop of replay_wal: the committed operations in
\* file order, reading up to the first entry that fails to parse
RECURSIVE ScanWal(_, _, _)
ScanWal(w, committed_ops, pending_ops) ==
    IF w = <<>> THEN committed_ops
    ELSE LET e == Head(w)
         IN CASE e.operation = "Checkpoint" -> ScanWal(Tail(w), <<>>, <<>>)
              [] e.operation = "Commit" ->
                    ScanWal(Tail(w), committed_ops \o pending_ops, <<>>)
              [] e.operation \in {"Put", "Delete"} ->
                    ScanWal(Tail(w), committed_ops, Append(pending_ops, e))
              [] OTHER -> committed_ops
\* apply the operations in order, stopping at the first error
RECURSIVE ApplyEntries(_, _)
ApplyRest(r, es) ==
    IF ~r.ok THEN [s |-> r.s, ok |-> FALSE] ELSE ApplyEntries(r.s, es)
ApplyEntries(s, es) ==
    LET \* replay_wal / put_batch_internal / commit_transaction: one operation
        ApplyEntry(e) ==
            IF e.operation = "Put" THEN apply_put(s, e.key, e.value)
            ELSE apply_delete(s, e.key)
    IN  IF es = <<>> THEN [s |-> s, ok |-> TRUE]
        ELSE ApplyRest(ApplyEntry(Head(es)), Tail(es))

\* ------------------------------------------------------------ checkpoint
Metadata(s, wal_seq) ==
    [kind |-> "meta", root_page_id |-> s.root, next_page_id |-> s.next,
     wal_sequence |-> wal_seq, free_page_ids |-> s.free]
\* a metadata slot image that fails Metadata::from_bytes
TornBytes == [kind |-> "torn"]
\* the dirty pages written in ascending page id order
RECURSIVE WriteDirty(_, _, _)
WriteDirty(d, cache, ids) ==
    IF ids = {} THEN d
    ELSE LET p == CHOOSE x \in ids : \A y \in ids : x <= y
         IN WriteDirty(IF p \in DOMAIN cache THEN write_page(d, p, cache[p])
                       ELSE d,
                       cache, ids \ {p})
write_metadata_slot(wal_seq) ==
    IF wal_seq % 2 = 0 THEN METADATA_PAGE_ID_1 ELSE METADATA_PAGE_ID_2
write_metadata(s, wal_seq) ==
    [s EXCEPT !.data = write_page(s.data, write_metadata_slot(wal_seq),
                                  Metadata(s, wal_seq))]
\* the page cache after the loop of checkpoint left data file d and after
\* clear_dirty: cache.get of the dirty ids in ascending order promoted the
\* ones in the LRU; the pages inserted as dirty that d does not hold stay
\* unsaved
Visited(c, d) ==
    [c EXCEPT !.order = SelectSeq(@, LAMBDA x : x \notin c.dirty)
                        \o Ascending({x \in c.dirty : InLru(c, x)}),
              !.unsaved = [p \in {q \in DOMAIN @ :
                                     q \notin DOMAIN d \/ d[q] # @[q]} |->
                              @[p]]]
Flushed(c, d) == clear_dirty(Visited(c, d))
\* checkpoint: the dirty pages, the metadata slot, then clear_dirty (the
\* caller truncates the WAL and resets wal_sequence)
checkpoint(s, wal_seq) ==
    write_metadata(
        [s EXCEPT !.data = WriteDirty(@, s.cache.pages, s.cache.dirty),
                  !.cache = Flushed(@, WriteDirty(s.data, s.cache.pages,
                                                  s.cache.dirty))],
        wal_seq)

\* --------------------------------------------------------------- recovery
MetadataFromBytes(b) == b.kind = "meta"
\* the metadata recover() restores, or NoPage when neither slot is valid
best_metadata(d) ==
    LET r0 == read_page(d, METADATA_PAGE_ID_1)
        r1 == read_page(d, METADATA_PAGE_ID_2)
        v0 == data_page_count(d) > 0 /\ r0.ok /\ MetadataFromBytes(r0.bytes)
        v1 == data_page_count(d) > 1 /\ r1.ok /\ MetadataFromBytes(r1.bytes)
    IN IF v0 /\ v1
       THEN IF r1.bytes.wal_sequence > r0.bytes.wal_sequence THEN r1.bytes
            ELSE r0.bytes
       ELSE IF v0 THEN r0.bytes
       ELSE IF v1 THEN r1.bytes
       ELSE NoPage
EmptyFn == [x \in {} |-> NoPage]
\* BTree::new() with an empty cache over the data file d
FreshState(d) ==
    [cache |-> with_capacity(DEFAULT_CACHE_SIZE), root |-> 0, next |-> 2,
     free |-> <<>>, data |-> d, reb |-> <<>>]
initialize_empty_db(s) ==
    LET \* initialize_empty_db after the root leaf was written: both metadata slots
        InitMeta(s1) ==
            [s1 EXCEPT !.data = write_page(write_page(s1.data, METADATA_PAGE_ID_1,
                                                      Metadata(s1, 0)),
                                           METADATA_PAGE_ID_2, Metadata(s1, 0))]
        InitRoot(al) ==
            InitMeta([al.s EXCEPT !.data = write_page(al.s.data, al.id,
                                                      to_page(new_leaf(al.id)).page),
                                  !.root = al.id])
    IN  InitRoot(allocate_page(s))
\* recover(): the tree and wal_sequence restored from the metadata meta
has_valid_metadata(meta) == meta # NoPage /\ meta.root_page_id > 0
StartState(d, meta) ==
    IF has_valid_metadata(meta)
    THEN [FreshState(d) EXCEPT !.root = meta.root_page_id,
                               !.next = meta.next_page_id,
                               !.free = meta.free_page_ids]
    ELSE initialize_empty_db(FreshState(d))
StartSeq(meta) == IF has_valid_metadata(meta) THEN meta.wal_sequence ELSE 0
\* replay_wal after the committed operations were applied: the checkpoint
\* (dirty pages, metadata under the restored wal_sequence, WAL truncation)
Replayed(ap, seq0) ==
    IF ~ap.ok
    THEN [s |-> ap.s, ok |-> FALSE, seq |-> seq0, truncated |-> FALSE]
    ELSE [s |-> checkpoint(ap.s, seq0), ok |-> TRUE, seq |-> 0,
          truncated |-> TRUE]
\* replay_wal: scan, apply, checkpoint
replay_wal(s0, seq0, w) ==
    Replayed(ApplyEntries(s0, ScanWal(w, <<>>, <<>>)), seq0)
Recovered(s0, seq0, w) ==
    IF w = <<>>
    THEN [s |-> s0, ok |-> TRUE, seq |-> seq0, truncated |-> FALSE]
    ELSE replay_wal(s0, seq0, w)
RecoverFrom(d, meta, w) == Recovered(StartState(d, meta), StartSeq(meta), w)
\* recover(): metadata selection, then replay_wal when the WAL is not
\* empty.  ok is FALSE when open fails; seq is the resulting wal_sequence
\* and truncated says that replay_wal ran its checkpoint.
recover(d, w) == RecoverFrom(d, best_metadata(d), w)

\* ------------------------------------------------------------ byte images
\* Page images and WAL entries at the level of their bytes.  The widths are
\* scaled down: a header integer has WordBits bits, the operation byte
\* OpBits, a run of padding or reserved bytes PadBits, the page data DataBits
\* and a key or value byte one bit.  An image is the record of its byte
\* ranges; a WAL payload is the sequence of its bytes.
\* the integer v with bit i flipped
Flipped(v, i) == IF (v \div 2 ^ i) % 2 = 1 THEN v - 2 ^ i ELSE v + 2 ^ i
\* a hashed field: the integer v written on w bits
Field(v, w) == [v |-> v, w |-> w]
RECURSIVE Width(_)
Width(fields) ==
    IF fields = <<>> THEN 0 ELSE Head(fields).w + Width(Tail(fields))
\* CRC-32 of the bytes fed to the hasher.  CRC-32 tells apart any two
\* inputs of one length that differ in one bit; here it tells apart any two
\* inputs (the fields written one after the other are the checksum, counted
\* from the hasher's nonzero initial value), on Width(fields) bits.
crc32(fields) ==
    LET RECURSIVE Packed(_)
        Packed(fs) ==
            IF fs = <<>> THEN 0
            ELSE Packed(SubSeq(fs, 1, Len(fs) - 1)) * 2 ^ fs[Len(fs)].w
                     + fs[Len(fs)].v
    IN  (Packed(fields) + 1) % 2 ^ Width(fields)
\* the bytes Page::to_bytes and Page::from_bytes feed to the hasher: the
\* whole image with the checksum field zeroed
PageHashed(b) ==
    <<Field(b.page_id, WordBits), Field(b.page_type, WordBits),
      Field(b.item_count, WordBits), Field(b.free_space_offset, WordBits),
      Field(b.reserved13, PadBits), Field(b.reserved20, PadBits),
      Field(b.data, DataBits)>>
Page_to_bytes(p) ==
    LET bytes ==
            [page_id |-> p.page_id, page_type |-> p.page_type,
             item_count |-> p.item_count,
             free_space_offset |-> p.free_space_offset, reserved13 |-> 0,
             checksum |-> 0, reserved20 |-> 0, data |-> p.data]
    IN  [bytes EXCEPT !.checksum = crc32(PageHashed(bytes))]
\* Ok(page) or Err(ChecksumMismatch)
Page_from_bytes(bytes) ==
    LET stored_checksum == bytes.checksum
        computed_checksum == crc32(PageHashed(bytes))
    IN  IF stored_checksum # 0 /\ stored_checksum # computed_checksum
        THEN [ok |-> FALSE]
        ELSE [ok |-> TRUE,
              page |-> [page_id |-> bytes.page_id,
                        page_type |-> bytes.page_type,
                        item_count |-> bytes.item_count,
                        free_space_offset |-> bytes.free_space_offset,
                        data |-> bytes.data]]

\* u8::from(WalOperation)
OperationByte(operation) ==
    CASE operation = "Put" -> 1
      [] operation = "Delete" -> 2
      [] operation = "Commit" -> 3
      [] operation = "Checkpoint" -> 4
\* WalOperation::try_from(u8): the operation, or "Unknown" for Err
OperationFrom(op_byte) ==
    IF \E o \in {"Put", "Delete", "Commit", "Checkpoint"} :
           OperationByte(o) = op_byte
    THEN CHOOSE o \in {"Put", "Delete", "Commit", "Checkpoint"} :
             OperationByte(o) = op_byte
    ELSE "Unknown"
\* a byte string as an integer, first byte highest
RECURSIVE BytesValue(_)
BytesValue(bs) ==
    IF bs = <<>> THEN 0
    ELSE 2 * BytesValue(SubSeq(bs, 1, Len(bs) - 1)) + bs[Len(bs)]
\* the hasher is fed sequence, operation byte, key length, key, value
\* length and value; a byte string of a WAL entry has less than 2^WordBits
\* bytes.  No value (None) is the empty sequence.
calculate_checksum(sequence, operation, key, value) ==
    crc32(<<Field(sequence, WordBits),
            Field(OperationByte(operation), OpBits),
            Field(Len(key), WordBits), Field(BytesValue(key), 2 ^ WordBits),
            Field(Len(value), WordBits),
            Field(BytesValue(value), 2 ^ WordBits)>>)
\* new_put, new_delete, new_commit, new_checkpoint end in compute_checksum
write_to_buffer(e) ==
    [sequence |-> e.sequence, operation |-> OperationByte(e.operation),
     padding |-> 0,
     key_len |-> Len(e.key), value_len |-> Len(e.value),
     checksum |-> calculate_checksum(e.sequence, e.operation, e.key, e.value),
     payload |-> e.key \o e.value]
\* Ok(entry) or Err(WalCorrupted)
WalEntry_from_bytes(bytes) ==
    LET operation == OperationFrom(bytes.operation)
        key_len == bytes.key_len
        value_len == bytes.value_len
        key == SubSeq(bytes.payload, 1, key_len)
        value == SubSeq(bytes.payload, key_len + 1, key_len + value_len)
        Bad ==
            \/ Len(bytes.payload) < key_len + value_len
            \/ operation = "Unknown"
            \/ operation = "Put" /\ value_len = 0
            \/ operation = "Delete" /\ value_len # 0
            \/ /\ operation \in {"Commit", "Checkpoint"}
               /\ (key_len # 0 \/ value_len # 0)
    IN  IF Bad THEN [ok |-> FALSE]
        ELSE IF calculate_checksum(bytes.sequence, operation, key, value)
                    # bytes.checksum
        THEN [ok |-> FALSE]
        ELSE [ok |-> TRUE,
              entry |-> [sequence |-> bytes.sequence,
                         operation |-> operation,
                         key |-> key, value |-> value]]

\* ------------------------------------------------------------------ state
VARIABLES
    data,           \* storage: the data file, page id -> page image
    wal,            \* storage: the WAL file, a sequence of entries
    cache,          \* PageCache: page id -> page held (LRU and spilled)
    lru,            \* PageCache: capacity of the LRU and order of its ids
    unsaved,        \* history: page id -> page last inserted as dirty and
                    \* not yet written by a checkpoint
    dirty_set,      \* PageCache: ids of dirty pages
    root_page_id,   \* BTree
    next_page_id,   \* BTree
    free_page_ids,  \* BTree
    rebalanced,     \* history: the rebalancing operations of the last call
                    \* on the tree, each with the key counts of the nodes
                    \* it saved
    wal_sequence,   \* SikioDB
    status,         \* "open", "down" (process killed) or "failed" (open failed)
    now,            \* host clock, milliseconds
    kv,             \* history: key -> value of the last successful put not
                    \* followed by a successful delete (None otherwise)
    deadline,       \* history: key -> clock value t plus ttl d of the
                    \* put_with_ttl that wrote the key last (NoDeadline
                    \* when its last write was no put_with_ttl)
    last,           \* history: the last call and its outcome
    pre,            \* history: key -> get result before the interrupted or
                    \* last call when the process was killed
    nops,           \* history: number of write calls, closes and kills
    txn,            \* the WriteTransaction handle: state and buffered ops
    crash,          \* history: how the process was killed last
    image,          \* a serialized page or WAL entry, outside any database
    rtxn,           \* the ReadTransaction handle, and as history the kv of
                    \* the moment begin_read returned it
    cursor,         \* a CursorState, and as history the calls made on it
                    \* since it was created
    call,           \* a handler run step by step: the steps it has left, and
                    \* as history the steps done, the state it started from
                    \* and what the files hold durably
    held,           \* a second WriteTransaction handle, kept aside while
                    \* the calls go to the one in txn
    pcache          \* a PageCache on its own, with the dirty flag of every
                    \* entry, and as history the last call made on it
\* the database, its files and the history of its calls
db == <<data, wal, cache, lru, unsaved, dirty_set, root_page_id,
        next_page_id, free_page_ids, rebalanced, wal_sequence, status, now, kv, deadline, last, pre,
        nops, txn, crash>>
vars == <<db, image, rtxn, cursor, call, held, pcache>>
engine == <<data, cache, lru, unsaved, dirty_set, root_page_id, next_page_id,
           free_page_ids, rebalanced>>

Cur ==
    [cache |-> [pages |-> cache, order |-> lru.order, cap |-> lru.cap,
                dirty |-> dirty_set, unsaved |-> unsaved],
     root |-> root_page_id, next |-> next_page_id, free |-> free_page_ids,
     data |-> data, reb |-> <<>>]
SetCache(c) ==
    /\ cache' = c.pages
    /\ lru' = [cap |-> c.cap, order |-> c.order]
    /\ unsaved' = c.unsaved
    /\ dirty_set' = c.dirty
SetEngine(s) ==
    /\ SetCache(s.cache)
    /\ root_page_id' = s.root
    /\ next_page_id' = s.next
    /\ free_page_ids' = s.free
    /\ data' = s.data
    /\ rebalanced' = s.reb
\* the result of get(key) in the current state
Get(k) == get_internal(Cur, k, now).result
Event(op, ok) == [op |-> op, ok |-> ok, key |-> 0, note |-> ""]
KeyEvent(op, ok, k, note) == [op |-> op, ok |-> ok, key |-> k, note |-> note]

Count(f) == [nops EXCEPT ![f] = @ + 1]
\* no deadline: a value below every clock value
NoDeadline == None - 1
\* the deadlines after a write call: the keys a successful call wrote get dl
Deadlines(keys, dl) ==
    [k \in Keys |-> IF last'.ok /\ k \in keys THEN dl ELSE deadline[k]]
\* nothing was serialized
NoImage == [kind |-> "none", bytes |-> <<>>, flipped |-> FALSE, read |-> "none"]
\* no handler is running and nothing was appended or written
NoCall ==
    [running |-> FALSE, op |-> "none", todo |-> <<>>, done |-> <<>>,
     count |-> 0, wal0 |-> <<>>, seq0 |-> 0, tree0 |-> <<>>,
     wal_flushed |-> 0, flushed0 |-> 0, data_flushed |-> <<>>,
     slots |-> <<>>, failed |-> <<>>]
\* CursorState::new(), no call made on it
NoCursor == [c |-> Invalid(<<>>), trail |-> <<>>]
\* no ReadTransaction handle exists
NoRead == [state |-> "none", root_page_id |-> 0, at |-> <<>>]
\* no WriteTransaction handle exists
NoTxn == [state |-> "none", ops |-> <<>>, retry |-> "none", sequence_start |-> 0]
\* the state after open() on empty files, the page cache made for cap pages
Opened(cap) ==
    LET \* the process has not been killed
        NoCrash ==
            [kind |-> "none", after |-> Event("open", TRUE), ops |-> <<>>,
             data |-> EmptyFn, wal |-> <<>>, n |-> 0, corrupt |-> 0, meta |-> NoPage]
        \* the state after open() returned o on empty files
        Started(o) ==
            /\ cache = o.s.cache.pages
            /\ lru = [cap |-> cap, order |-> o.s.cache.order]
            /\ unsaved = o.s.cache.unsaved
            /\ dirty_set = o.s.cache.dirty
            /\ root_page_id = o.s.root
            /\ next_page_id = o.s.next
            /\ free_page_ids = o.s.free
            /\ rebalanced = o.s.reb
            /\ data = o.s.data
            /\ wal = <<>>
            /\ wal_sequence = o.seq
            /\ status = "open"
            /\ now = 0
            /\ kv = [k \in Keys |-> None]
            /\ deadline = [k \in Keys |-> NoDeadline]
            /\ last = Event("open", TRUE)
            /\ pre = [k \in Keys |-> None]
            /\ nops = [writes |-> 0, closes |-> 0, kills |-> 0]
            /\ txn = NoTxn
            /\ crash = NoCrash
            /\ image = NoImage
            /\ rtxn = NoRead
            /\ cursor = NoCursor
            /\ call = NoCall
            /\ held = NoTxn
            /\ pcache = [c |-> PageCache_with_capacity(CacheCapacity),
                         last |-> "with_capacity"]
    IN  Started(recover(EmptyFn, <<>>))
\* SikioDB::open: PageCache::new()
Init == Opened(DEFAULT_CACHE_SIZE)

\* ---------------------------------------------------------------- actions
validate_key_value(key, value) ==
    KeyBytes(key) <= MAX_KEY_SIZE /\ StoredLen(value) <= MAX_VALUE_SIZE
\* the checkpoint a write handler runs when the WAL passed the threshold
ThresholdCheckpoint(s, w, seq) ==
    IF wal_size(w) > WAL_CHECKPOINT_THRESHOLD
    THEN [s |-> checkpoint(s, seq), wal |-> <<>>, seq |-> 0]
    ELSE [s |-> s, wal |-> w, seq |-> seq]
\* what a write handler leaves behind: engine, WAL, wal_sequence, outcome
Finish(c, ev, newkv) ==
    /\ SetEngine(c.s)
    /\ wal' = c.wal
    /\ wal_sequence' = c.seq
    /\ last' = ev
    /\ kv' = newkv
\* a write handler after its entries were appended (w, seq) and applied (r):
\* a failing apply returns the error after the appends
WriteDone(r, w, seq, opname, key, note, newkv) ==
    IF ~r.ok
    THEN Finish([s |-> r.s, wal |-> w, seq |-> seq],
                KeyEvent(opname, FALSE, key, "apply"), kv)
    ELSE Finish(ThresholdCheckpoint(r.s, w, seq),
                KeyEvent(opname, TRUE, key, note), newkv)
\* put_internal: validate, append Put and Commit, flush, apply, checkpoint
\* on threshold
put_internal(key, value, opname) ==
    IF ~validate_key_value(key, value)
    THEN /\ UNCHANGED <<engine, wal, wal_sequence, kv>>
         /\ last' = KeyEvent(opname, FALSE, key, "invalid")
    ELSE WriteDone(apply_put(Cur, key, value),
                   wal \o <<new_put(wal_sequence + 1, key, value),
                            new_commit(wal_sequence + 2)>>,
                   wal_sequence + 2, opname, key, "",
                   [kv EXCEPT ![key] = value.b])
\* put(key, value)
Put(k, v) ==
    /\ status = "open"
    /\ put_internal(k, wrap_raw_value(v), "put")
    /\ deadline' = Deadlines({k}, NoDeadline)
    /\ nops' = Count("writes")
    /\ UNCHANGED <<status, now, pre, txn, crash>>
\* put_no_sync(key, value): put_internal_no_sync is put_internal without the
\* flush of the WAL
PutNoSync(k, v) ==
    /\ status = "open"
    /\ put_internal(k, wrap_raw_value(v), "put_no_sync")
    /\ deadline' = Deadlines({k}, NoDeadline)
    /\ nops' = Count("writes")
    /\ UNCHANGED <<status, now, pre, txn, crash>>
delete_internal(k) ==
    LET \* delete_internal: append Delete and Commit, flush, apply, checkpoint on
        \* threshold; returns whether the key was there
        DeleteDone(r) ==
            WriteDone(r,
                      wal \o <<new_delete(wal_sequence + 1, k),
                               new_commit(wal_sequence + 2)>>,
                      wal_sequence + 2, "delete", k,
                      IF r.ok /\ r.deleted THEN "true" ELSE "false",
                      [kv EXCEPT ![k] = None])
    IN  DeleteDone(apply_delete(Cur, k))
\* delete(key)
Delete(k) ==
    /\ status = "open"
    /\ delete_internal(k)
    /\ deadline' = Deadlines({k}, NoDeadline)
    /\ nops' = Count("writes")
    /\ UNCHANGED <<status, now, pre, txn, crash>>

\* A u64 of the program is ClockBits wide here.  now + ttl_ms is a plain
\* u64 addition: past the width it wraps, or panics where the build has
\* overflow checks, which ends the call before put_internal.
U64 == 2 ^ ClockBits
\* put_with_ttl(key, value, ttl_ms): the expiry is taken from the host clock
PutWithTtl(k, v, ttl_ms) ==
    /\ status = "open"
    /\ \E overflow_checks \in BOOLEAN :
          IF overflow_checks /\ now + ttl_ms >= U64
          THEN /\ last' = KeyEvent("put_with_ttl", FALSE, k, "panic")
               /\ UNCHANGED <<engine, wal, wal_sequence, kv>>
          ELSE put_internal(k, wrap_ttl_value(v, (now + ttl_ms) % U64),
                            "put_with_ttl")
    /\ deadline' = Deadlines({k}, now + ttl_ms)
    /\ nops' = Count("writes")
    /\ UNCHANGED <<status, now, pre, txn, crash>>
\* the host clock advances by one millisecond
Tick ==
    /\ now' = now + 1
    /\ UNCHANGED <<engine, wal, wal_sequence, status, kv, deadline, last, pre,
                   nops, txn, crash>>

\* ------------------------------------------------------------------- get
\* get(key)
GetKey(k) ==
    LET \* what get leaves behind: the pages it loaded and its outcome
        GetDone(r) ==
            /\ SetEngine(r.s)
            /\ last' = [op |-> "get", ok |-> r.result # Failed, key |-> k,
                        note |-> "", result |-> r.result]
            /\ UNCHANGED <<wal, wal_sequence, status, now, kv, deadline, pre,
                           nops, txn, crash>>
    IN  /\ status = "open"
        /\ GetDone(get_internal(Cur, k, now))

\* ------------------------------------------------------------------ scans
\* what a scan leaves behind: the pages it loaded and its outcome
ScanDone(r, ev) ==
    /\ SetEngine(r.s)
    /\ last' = [ev EXCEPT !.ok = r.ok, !.result = r.results]
    /\ UNCHANGED <<wal, wal_sequence, status, now, kv, deadline, pre, nops,
                   txn, crash>>
\* scan_range(start_key, end_key, limit)
ScanRange(start_key, end_key, limit) ==
    /\ status = "open"
    /\ ScanDone(scan_range(Cur, start_key, end_key, limit, now),
                [op |-> "scan_range", ok |-> TRUE, key |-> 0, note |-> "",
                 start |-> start_key, end |-> end_key, limit |-> limit,
                 prefix |-> EmptyPrefix, result |-> <<>>])
\* scan_prefix(prefix)
ScanPrefix(prefix) ==
    /\ status = "open"
    /\ ScanDone(scan_prefix_internal(Cur, prefix, now),
                [op |-> "scan_prefix", ok |-> TRUE, key |-> 0, note |-> "",
                 start |-> 0, end |-> 0, limit |-> 0,
                 prefix |-> prefix, result |-> <<>>])

\* ------------------------------------------------------------- put_batch
\* slice::sort_by on the key: a stable insertion of e into a sorted list
RECURSIVE SortedInsert(_, _)
SortedInsert(sorted, e) ==
    IF sorted = <<>> THEN <<e>>
    ELSE IF e.key < Head(sorted).key THEN <<e>> \o sorted
    ELSE <<Head(sorted)>> \o SortedInsert(Tail(sorted), e)
RECURSIVE SortByKey(_)
SortByKey(es) ==
    IF es = <<>> THEN <<>>
    ELSE SortedInsert(SortByKey(SubSeq(es, 1, Len(es) - 1)), es[Len(es)])
\* the WAL buffer of a batch: one Put per pair, then one Commit
BatchBuffer(pairs, seq0) ==
    [i \in 1..Len(pairs) |->
        new_put(seq0 + i, pairs[i].key, wrap_raw_value(pairs[i].value))]
    \o <<new_commit(seq0 + Len(pairs) + 1)>>
\* the reference content after the operations es, applied in order to m
RECURSIVE ApplyToMap(_, _)
ApplyToMap(m, es) ==
    IF es = <<>> THEN m
    ELSE ApplyToMap([m EXCEPT ![Head(es).key] =
                        IF Head(es).operation = "Put" THEN Head(es).value.b
                        ELSE None],
                    Tail(es))
\* put_batch_internal: validate and serialize every pair (wal_sequence
\* advances per pair), then the append and the applies
put_batch_internal(pairs) ==
    LET \* the pairs of a batch that fail validate_key_value
        BadPairs(ps) ==
            {i \in 1..Len(ps) : ~validate_key_value(ps[i].key,
                                                    wrap_raw_value(ps[i].value))}
        \* put_batch_internal after the buffer buf of n Puts and one Commit was
        \* built: one append, flush, the pairs applied sorted by key, checkpoint on
        \* threshold
        BatchDone(buf, n) ==
            WriteDone(ApplyEntries(Cur, SortByKey(SubSeq(buf, 1, n))),
                      wal \o buf, wal_sequence + n + 1, "put_batch", 0, "",
                      ApplyToMap(kv, SubSeq(buf, 1, n)))
    IN  IF BadPairs(pairs) # {}
        THEN /\ wal_sequence' = wal_sequence + SetMin(BadPairs(pairs)) - 1
             /\ UNCHANGED <<engine, wal, kv>>
             /\ last' = KeyEvent("put_batch", FALSE, 0, "invalid")
        ELSE BatchDone(BatchBuffer(pairs, wal_sequence), Len(pairs))
\* put_batch(data), data holding the pairs in order
PutBatch(pairs) ==
    /\ status = "open"
    /\ put_batch_internal(pairs)
    /\ deadline' = Deadlines({pairs[i].key : i \in 1..Len(pairs)}, NoDeadline)
    /\ nops' = Count("writes")
    /\ UNCHANGED <<status, now, pre, txn, crash>>

\* ----------------------------------------------------------- transactions
\* begin_write()
BeginWrite ==
    /\ status = "open"
    /\ txn' = [state |-> "active", ops |-> <<>>, retry |-> "none",
               sequence_start |-> wal_sequence]
    /\ last' = Event("begin_write", TRUE)
    /\ UNCHANGED <<engine, wal, wal_sequence, status, now, kv, deadline, pre,
                   nops, crash>>
\* the outcome of a call on the handle: op, its arguments and its result
TxnEvent(op, ok, k, v, note) ==
    [op |-> op, ok |-> ok, key |-> k, value |-> v, note |-> note]
\* WriteTransaction::put, validate_key_value returned an error: nothing is
\* buffered and no flag is set (retry: history, a put was refused)
TxnInvalid(k, v) ==
    /\ txn' = [txn EXCEPT !.retry = "refused"]
    /\ last' = TxnEvent("txn_put", FALSE, k, v, "invalid")
\* WriteTransaction::put: refuses a finished transaction, validates the user
\* value, then buffers the wrapped one
TxnPut(k, v) ==
    /\ status = "open"
    /\ txn.state # "none"
    /\ IF txn.state # "active"
       THEN /\ UNCHANGED txn
            /\ last' = TxnEvent("txn_put", FALSE, k, v, "not active")
       ELSE IF KeyBytes(k) <= MAX_KEY_SIZE /\ ValLen(v) <= MAX_VALUE_SIZE
       THEN /\ txn' = [txn EXCEPT
                         !.ops = Append(@, new_put(0, k, wrap_raw_value(v))),
                         !.retry = IF @ = "refused" THEN "retried" ELSE @]
            /\ last' = TxnEvent("txn_put", TRUE, k, v, "")
       ELSE TxnInvalid(k, v)
    /\ UNCHANGED <<engine, wal, wal_sequence, status, now, kv, deadline, pre,
                   nops, crash>>
\* WriteTransaction::delete: refuses a finished transaction, else buffers
TxnDelete(k) ==
    /\ status = "open"
    /\ txn.state # "none"
    /\ IF txn.state # "active"
       THEN /\ UNCHANGED txn
            /\ last' = KeyEvent("txn_delete", FALSE, k, "not active")
       ELSE /\ txn' = [txn EXCEPT !.ops = Append(@, new_delete(0, k))]
            /\ last' = KeyEvent("txn_delete", TRUE, k, "")
    /\ UNCHANGED <<engine, wal, wal_sequence, status, now, kv, deadline, pre,
                   nops, crash>>
\* an abort that leaves the handle as it is
AbortKeeping ==
    /\ status = "open"
    /\ txn.state # "none"
    /\ last' = Event("abort", TRUE)
    /\ UNCHANGED <<engine, wal, wal_sequence, status, now, kv, deadline, pre,
                   nops, txn, crash>>
\* WriteTransaction::abort: clears ops and the WAL buffer, sets aborted (a
\* committed handle stays finished)
Abort ==
    /\ status = "open"
    /\ txn.state # "none"
    /\ txn' = [txn EXCEPT !.ops = <<>>,
                          !.state = IF @ = "committed" THEN @ ELSE "aborted"]
    /\ last' = Event("abort", TRUE)
    /\ UNCHANGED <<engine, wal, wal_sequence, status, now, kv, deadline, pre,
                   nops, crash>>
\* a prepare_wal that numbers the entries from 1 whatever the sequence is
prepare_wal_from_one(ops, seq0) ==
    [i \in 1..Len(ops) |-> [ops[i] EXCEPT !.sequence = i]]
    \o <<new_commit(Len(ops) + 1)>>
\* WriteTransaction::prepare_wal: the buffered ops numbered from seq0 + 1,
\* then one Commit
prepare_wal(ops, seq0) ==
    [i \in 1..Len(ops) |-> [ops[i] EXCEPT !.sequence = seq0 + i]]
    \o <<new_commit(seq0 + Len(ops) + 1)>>
\* commit_transaction: an empty transaction is aborted; otherwise one append,
\* flush, then the ops applied in order, checkpoint on threshold
commit_transaction ==
    IF txn.state # "active"
    THEN /\ UNCHANGED txn
         /\ last' = KeyEvent("commit", FALSE, 0, "not active")
         /\ UNCHANGED <<engine, wal, wal_sequence, kv>>
    ELSE IF txn.ops = <<>>
    THEN /\ txn' = [txn EXCEPT !.state = "aborted"]
         /\ last' = KeyEvent("commit", TRUE, 0, "empty")
         /\ UNCHANGED <<engine, wal, wal_sequence, kv>>
    ELSE /\ txn' = [txn EXCEPT !.state = "committed", !.ops = <<>>]
         /\ WriteDone(ApplyEntries(Cur, txn.ops),
                      wal \o prepare_wal(txn.ops, wal_sequence),
                      wal_sequence + Len(txn.ops) + 1, "commit", 0, "",
                      ApplyToMap(kv, txn.ops))
Commit ==
    /\ status = "open"
    /\ txn.state # "none"
    /\ commit_transaction
    /\ deadline' = Deadlines({txn.ops[i].key : i \in 1..Len(txn.ops)}, NoDeadline)
    /\ nops' = IF txn.state = "active" THEN Count("writes") ELSE nops
    /\ UNCHANGED <<status, now, pre, crash>>

\* ------------------------------------------------------------------ close
\* close(): flush, then checkpoint (dirty pages, metadata slot, WAL
\* truncation, wal_sequence = 0, clear_dirty)
Close ==
    /\ status = "open"
    /\ SetEngine(checkpoint(Cur, wal_sequence))
    /\ wal' = <<>>
    /\ wal_sequence' = 0
    /\ last' = KeyEvent("close", TRUE, 0,
                        IF \E p \in dirty_set : ~InLru(lru, p) THEN "spilled"
                        ELSE "")
    /\ nops' = Count("closes")
    /\ UNCHANGED <<status, now, kv, deadline, pre, txn, crash>>

\* ------------------------------------------------------- kill and reopen
\* the process is gone: everything held in memory is lost, the files stay
ProcessDown ==
    /\ cache' = EmptyFn
    /\ lru' = [lru EXCEPT !.order = <<>>]
    /\ unsaved' = EmptyFn
    /\ dirty_set' = {}
    /\ root_page_id' = 0
    /\ next_page_id' = 2
    /\ free_page_ids' = <<>>
    /\ rebalanced' = <<>>
    /\ wal_sequence' = 0
    /\ txn' = NoTxn
    /\ status' = "down"
    /\ pre' = [k \in Keys |-> Get(k)]
    /\ last' = Event("kill", TRUE)
    /\ nops' = Count("kills")
    /\ UNCHANGED <<now, kv, deadline>>
Crashed(kind, ops, n) ==
    [kind |-> kind, after |-> last, ops |-> ops, data |-> data, wal |-> wal,
     n |-> n, corrupt |-> 0, meta |-> NoPage]
\* the process is killed between two calls
Kill ==
    /\ status = "open"
    /\ ProcessDown
    /\ crash' = Crashed("idle", <<>>, 0)
    /\ UNCHANGED <<data, wal>>
\* the n smallest elements of a set of page ids
FirstN(S, n) == {x \in S : Cardinality({y \in S : y < x}) < n}
\* the process is killed inside the checkpoint of close(): after the first
\* n dirty pages were written ("pages"), while the metadata slot is being
\* written, leaving it torn ("meta_torn"), or after the metadata slot was
\* written and before the WAL is truncated ("meta_done")
KillInCheckpoint(stage, n) ==
    LET all == WriteDirty(data, cache, dirty_set)
        slot == write_metadata_slot(wal_sequence)
        meta == Metadata(Cur, wal_sequence)
    IN /\ status = "open"
       /\ n \in 0..Cardinality(dirty_set)
       /\ stage = "pages" \/ n = Cardinality(dirty_set)
       /\ data' = CASE stage = "pages" ->
                        WriteDirty(data, cache, FirstN(dirty_set, n))
                    [] stage = "meta_torn" -> write_page(all, slot, TornBytes)
                    [] OTHER -> write_page(all, slot, meta)
       /\ ProcessDown
       /\ crash' = [Crashed(stage, <<>>, n) EXCEPT
                        !.meta = IF stage = "meta_done" THEN meta ELSE NoPage]
       /\ UNCHANGED wal
\* a WAL append cut short by the kill: the first j entries of buf reached
\* the file, followed by a piece of the next one when torn
CutAppend(buf, j, torn) ==
    wal \o SubSeq(buf, 1, j) \o (IF torn THEN <<BadEntry>> ELSE <<>>)
\* the process is killed inside put_batch, during the append or right after
\* it (j = Len(buf)), before the pairs are applied
KillInBatch(pairs, j, torn) ==
    LET buf == BatchBuffer(pairs, wal_sequence)
    IN /\ status = "open"
       /\ j \in 0..Len(buf)
       /\ torn => j < Len(buf)
       /\ wal' = CutAppend(buf, j, torn)
       /\ ProcessDown
       /\ crash' = Crashed("batch", SubSeq(buf, 1, Len(pairs)), j)
       /\ UNCHANGED data
\* the process is killed inside commit_transaction, likewise
KillInCommit(j, torn) ==
    LET buf == prepare_wal(txn.ops, wal_sequence)
    IN /\ status = "open"
       /\ txn.state = "active"
       /\ txn.ops # <<>>
       /\ j \in 0..Len(buf)
       /\ torn => j < Len(buf)
       /\ wal' = CutAppend(buf, j, torn)
       /\ ProcessDown
       /\ crash' = Crashed("commit", txn.ops, j)
       /\ UNCHANGED data
\* while the process is down, entry i of the WAL file is damaged
CorruptWal(i) ==
    /\ status = "down"
    /\ crash.corrupt = 0
    /\ i \in 1..Len(wal)
    /\ wal[i] # BadEntry
    /\ wal' = [wal EXCEPT ![i] = BadEntry]
    /\ crash' = [crash EXCEPT !.corrupt = i]
    /\ UNCHANGED <<engine, wal_sequence, status, now, kv, deadline, last, pre,
                   nops, txn>>
Reopen ==
    LET \* open() on the files left behind, recover() having returned r
        Reopened(r) ==
            /\ status = "down"
            /\ crash' = [crash EXCEPT !.data = data, !.wal = wal]
            /\ IF r.ok
               THEN /\ SetEngine(r.s)
                    /\ wal' = IF r.truncated THEN <<>> ELSE wal
                    /\ wal_sequence' = r.seq
                    /\ status' = "open"
                    /\ last' = Event("reopen", TRUE)
               ELSE /\ data' = r.s.data
                    /\ UNCHANGED <<cache, lru, unsaved, dirty_set, root_page_id,
                                   next_page_id, free_page_ids, rebalanced,
                                   wal, wal_sequence>>
                    /\ status' = "failed"
                    /\ last' = Event("reopen", FALSE)
            /\ UNCHANGED <<now, kv, deadline, pre, nops, txn>>
    IN  Reopened(recover(data, wal))

\* ------------------------------------------------ specification: the tree
\* puts and deletes on a freshly initialized database, no crash, no TTL
NextTree ==
    /\ nops.writes < MaxOps
    /\ \/ \E k \in Keys, v \in Values : Put(k, v)
       \/ \E k \in Keys : Delete(k)
    /\ UNCHANGED <<image, rtxn, cursor, call, held, pcache>>
SpecTree == Init /\ [][NextTree]_vars

\* --------------------------------------- specification: kill between calls
\* puts, deletes, batches and transactions, with close() calls, one kill
\* between two calls and the reopen that follows.  A transaction is built
\* and committed without other calls in between (its buffered ops touch
\* nothing but the handle).
CrashKeys == 1..NumCrashKeys
CrashValues == {1, 2}
Pair(k, v) == [key |-> k, value |-> v]
\* the batches: up to MaxBatch pairs over the first two keys, short values
BatchPairs == {Pair(k, 1) : k \in 1..2}
Batches == UNION {[1..n -> BatchPairs] : n \in 1..MaxBatch}
Idle == status = "open" /\ txn.state # "active"
WriteCall ==
    \/ /\ Idle
       /\ \/ \E k \in CrashKeys, v \in CrashValues : Put(k, v)
          \/ \E k \in CrashKeys : Delete(k)
          \/ \E b \in Batches : PutBatch(b)
          \/ BeginWrite
    \/ /\ Len(txn.ops) < MaxTxnOps
       /\ txn.state = "active"
       /\ \/ \E k \in 1..2 : TxnPut(k, 1)
          \/ TxnDelete(1)
    \/ txn.state = "active" /\ Commit
NextCrash ==
    /\ \/ nops.writes < MaxCrashOps /\ nops.kills = 0 /\ WriteCall
       \/ nops.closes < MaxCloses /\ nops.kills = 0 /\ Idle /\ Close
       \/ nops.kills < MaxKills /\ Idle /\ Kill
       \/ Reopen
    /\ UNCHANGED <<image, rtxn, cursor, call, held, pcache>>
SpecCrash == Init /\ [][NextCrash]_vars

\* --------------------------------- specification: kill inside a checkpoint
\* puts and deletes with close() calls, then close() is called once more
\* and the process is killed inside its checkpoint; the reopen follows
CheckpointStages == {"pages", "meta_torn", "meta_done"}
NextCkpt ==
    /\ \/ /\ nops.writes < MaxCrashOps
          /\ nops.kills = 0
          /\ \/ \E k \in CrashKeys, v \in CrashValues : Put(k, v)
             \/ \E k \in CrashKeys : Delete(k)
       \/ nops.closes < MaxCloses /\ nops.kills = 0 /\ Close
       \/ /\ nops.kills < MaxKills
          /\ \E stage \in CheckpointStages, n \in 0..(2 * MaxCrashOps + 1) :
                KillInCheckpoint(stage, n)
       \/ Reopen
    /\ UNCHANGED <<image, rtxn, cursor, call, held, pcache>>
SpecCkpt == Init /\ [][NextCkpt]_vars

\* ------------------------------ specification: kill inside a batch or commit
\* some puts, then a put_batch or a transaction commit during which the
\* process is killed: any prefix of the appended entries reached the WAL
\* file, possibly followed by a torn entry; the trailing Commit of a full
\* append may be damaged before the reopen
BatchValues == {1, 2}
CallPairs == {Pair(k, v) : k \in CrashKeys, v \in BatchValues}
CallBatches == UNION {[1..n -> CallPairs] : n \in 1..MaxBatch}
NextBatch ==
    /\ \/ /\ nops.writes < MaxPrior
          /\ nops.kills = 0
          /\ Idle
          /\ \E k \in CrashKeys, v \in BatchValues : Put(k, v)
       \/ nops.kills = 0 /\ Idle /\ BeginWrite
       \/ /\ Len(txn.ops) < MaxTxnOps
          /\ txn.state = "active"
          /\ \/ \E k \in CrashKeys, v \in BatchValues : TxnPut(k, v)
             \/ \E k \in CrashKeys : TxnDelete(k)
       \/ /\ nops.kills < MaxKills
          /\ Idle
          /\ \E b \in CallBatches, j \in 0..(MaxBatch + 1), torn \in BOOLEAN :
                KillInBatch(b, j, torn)
       \/ /\ nops.kills < MaxKills
          /\ \E j \in 0..(MaxTxnOps + 1), torn \in BOOLEAN : KillInCommit(j, torn)
       \/ crash.n = Len(crash.ops) + 1 /\ CorruptWal(Len(wal))
       \/ Reopen
    /\ UNCHANGED <<image, rtxn, cursor, call, held, pcache>>
SpecBatch == Init /\ [][NextBatch]_vars

\* --------------------------------------- specification: a damaged WAL file
\* puts, deletes and batches, a kill between two calls, one entry of the
\* WAL file damaged while the process is down, and the reopen
NextWal ==
    /\ \/ /\ nops.writes < MaxCrashOps
          /\ nops.kills = 0
          /\ \/ \E k \in CrashKeys, v \in CrashValues : Put(k, v)
             \/ \E k \in CrashKeys : Delete(k)
             \/ \E b \in Batches : PutBatch(b)
       \/ nops.kills < MaxKills /\ Kill
       \/ \E i \in 1..(2 * MaxCrashOps + MaxBatch) : CorruptWal(i)
       \/ Reopen
    /\ UNCHANGED <<image, rtxn, cursor, call, held, pcache>>
SpecWal == Init /\ [][NextWal]_vars

\* ------------------------------------------------------ specification: scans
\* puts (plain and with a TTL), deletes and clock ticks, then one range or
\* prefix scan.  Scan bounds run over the keys and over one key below and
\* one key above them.
ScanBounds == 0..(NumCrashKeys + 1)
Limits == {1, NumCrashKeys}
Prefixes == {EmptyPrefix, PadPrefix} \cup {KeyPrefix(k) : k \in CrashKeys}
Scanned == last.op \in {"scan_range", "scan_prefix"}
NextScan ==
    /\ \/ /\ nops.writes < MaxScanOps
          /\ ~Scanned
          /\ \/ \E k \in CrashKeys, v \in Values : Put(k, v)
             \/ \E k \in CrashKeys : PutWithTtl(k, 1, 0)
             \/ \E k \in CrashKeys : Delete(k)
       \/ now < MaxClock /\ ~Scanned /\ Tick
       \/ /\ ~Scanned
          /\ \E a \in ScanBounds, b \in ScanBounds, n \in Limits :
                a <= b /\ ScanRange(a, b, n)
       \/ ~Scanned /\ \E p \in Prefixes : ScanPrefix(p)
    /\ UNCHANGED <<image, rtxn, cursor, call, held, pcache>>
SpecScan == Init /\ [][NextScan]_vars

\* ------------------------------------------------- specification: expiry
\* puts with a TTL (none, one tick, the largest u64), plain puts and deletes
\* while the clock advances, then one get or one scan over everything
TtlKeys == 1..NumTtlKeys
TtlValues == {1, 2}
Ttls == {0, 1, U64 - 1}
Reads == {"get", "scan_range", "scan_prefix"}
HasRead == last.op \in Reads
NextTtl ==
    /\ \/ /\ nops.writes < MaxTtlOps
          /\ ~HasRead
          /\ \/ \E k \in TtlKeys, v \in TtlValues, d \in Ttls : PutWithTtl(k, v, d)
             \/ \E k \in TtlKeys : Put(k, 1)
             \/ \E k \in TtlKeys : Delete(k)
       \/ now < MaxTtlClock /\ ~HasRead /\ Tick
       \/ ~HasRead /\ \E k \in TtlKeys : GetKey(k)
       \/ ~HasRead /\ ScanRange(0, NumTtlKeys + 1, NumTtlKeys)
       \/ ~HasRead /\ ScanPrefix(EmptyPrefix)
    /\ UNCHANGED <<image, rtxn, cursor, call, held, pcache>>
SpecTtl == Init /\ [][NextTtl]_vars

\* ------------------------------------------- specification: evictions
\* the LRU of DEFAULT_CACHE_SIZE pages scaled down to CacheCapacity pages,
\* so that the few pages of these trees overflow it: puts and deletes that
\* split and merge nodes, gets and scans that load pages, and close() calls
InitEvict == Opened(CacheCapacity)
NextEvict ==
    /\ \/ /\ nops.writes < MaxEvictOps
          /\ \/ \E k \in CrashKeys, v \in CrashValues : Put(k, v)
             \/ \E k \in CrashKeys : Delete(k)
       \/ \E k \in CrashKeys : GetKey(k)
       \/ ScanRange(0, NumCrashKeys + 1, NumCrashKeys)
       \/ nops.closes < MaxCloses /\ Close
    /\ UNCHANGED <<image, rtxn, cursor, call, held, pcache>>
SpecEvict == InitEvict /\ [][NextEvict]_vars

\* ------------------------------------------ specification: the page cache
\* calls on a PageCache of CacheCapacity pages by itself: insert, get and
\* clear_dirty with pages of NumCachePages ids, two contents each
CachePageIds == 2..(NumCachePages + 1)
CachePages ==
    {[kind |-> "page", page_id |-> i, page_type |-> 2, cells |-> <<>>,
      rightmost |-> r] : i \in CachePageIds, r \in {0, 1}}
\* a call on the cache left c and returned result
CacheCall(c, op, page_id, note, result) ==
    /\ status = "open"
    /\ SetCache(c)
    /\ last' = [op |-> op, ok |-> TRUE, key |-> page_id, note |-> note,
                result |-> result]
    /\ UNCHANGED <<data, wal, root_page_id, next_page_id, free_page_ids,
                   rebalanced, wal_sequence, status, now, kv, deadline, pre,
                   nops, txn, crash>>
\* insert(page, dirty), which returns the evicted entry if there is one
CacheInsert(page, dirty) ==
    LET out == IF ~InLru(lru, page.page_id) /\ Len(lru.order) = lru.cap
               THEN Head(lru.order) ELSE None
    IN  CacheCall(cache_insert(Cur.cache, page, dirty), "insert", page.page_id,
                  IF out # None /\ out \in dirty_set THEN "dirty victim"
                  ELSE "",
                  IF out = None THEN NoPage ELSE cache[out])
\* get(page_id), which returns the page if it is held
CacheGet(page_id) ==
    CacheCall(cache_get(Cur.cache, page_id), "cache_get", page_id, "",
              IF page_id \in DOMAIN cache THEN cache[page_id] ELSE NoPage)
ClearDirty == CacheCall(clear_dirty(Cur.cache), "clear_dirty", 0, "", NoPage)
NextCache ==
    /\ \/ \E page \in CachePages, dirty \in BOOLEAN : CacheInsert(page, dirty)
       \/ \E i \in CachePageIds : CacheGet(i)
       \/ ClearDirty
    /\ UNCHANGED <<image, rtxn, cursor, call, held, pcache>>
SpecCache == InitEvict /\ [][NextCache]_vars

\* ------------------------------------------------- specification: bit flips
\* a page or a WAL entry is serialized, one bit of the bytes is flipped, and
\* the bytes are read back
Pages ==
    [page_id : 0..(2 ^ WordBits - 1), page_type : 0..(2 ^ WordBits - 1),
     item_count : 0..(2 ^ WordBits - 1),
     free_space_offset : 0..(2 ^ WordBits - 1), data : 0..(2 ^ DataBits - 1)]
ByteStrings == UNION {[1..n -> {0, 1}] : n \in 1..MaxBytes}
Sequences == 0..(2 ^ WordBits - 1)
Entries ==
    {[sequence |-> q, operation |-> "Put", key |-> k, value |-> v] :
         q \in Sequences, k \in ByteStrings, v \in ByteStrings}
    \cup {[sequence |-> q, operation |-> "Delete", key |-> k, value |-> <<>>] :
              q \in Sequences, k \in ByteStrings}
    \cup {[sequence |-> q, operation |-> o, key |-> <<>>, value |-> <<>>] :
              q \in Sequences, o \in {"Commit", "Checkpoint"}}
Serialized(kind, bytes) ==
    /\ image.kind = "none"
    /\ image' = [kind |-> kind, bytes |-> bytes, flipped |-> FALSE,
                 read |-> "none"]
    /\ UNCHANGED db
SerializePage(p) == Serialized("page", Page_to_bytes(p))
SerializeEntry(e) == Serialized("entry", write_to_buffer(e))
\* the integer fields of an image and their widths in bits
FieldBits(kind) ==
    IF kind = "page"
    THEN [page_id |-> WordBits, page_type |-> WordBits,
          item_count |-> WordBits, free_space_offset |-> WordBits,
          reserved13 |-> PadBits, checksum |-> 4 * WordBits + 2 * PadBits + DataBits,
          reserved20 |-> PadBits, data |-> DataBits]
    ELSE [sequence |-> WordBits, operation |-> OpBits, padding |-> PadBits,
          key_len |-> WordBits, value_len |-> WordBits,
          checksum |-> 3 * WordBits + OpBits + 2 * 2 ^ WordBits]
\* bit i of the integer field f is flipped
FlipBit(f, i) ==
    /\ image.kind # "none"
    /\ ~image.flipped
    /\ image.read = "none"
    /\ f \in DOMAIN FieldBits(image.kind)
    /\ i < FieldBits(image.kind)[f]
    /\ image' = [image EXCEPT !.bytes[f] = Flipped(@, i), !.flipped = TRUE]
    /\ UNCHANGED db
\* the bit of byte j of a WAL entry's key or value is flipped
FlipPayload(j) ==
    /\ image.kind = "entry"
    /\ ~image.flipped
    /\ image.read = "none"
    /\ j \in 1..Len(image.bytes.payload)
    /\ image' = [image EXCEPT !.bytes.payload[j] = 1 - @, !.flipped = TRUE]
    /\ UNCHANGED db
\* Page::from_bytes or WalEntry::from_bytes on the bytes
ReadImage ==
    /\ image.kind # "none"
    /\ image.read = "none"
    /\ image' =
           [image EXCEPT !.read =
                IF \/ image.kind = "page" /\ Page_from_bytes(image.bytes).ok
                   \/ image.kind = "entry" /\ WalEntry_from_bytes(image.bytes).ok
                THEN "ok" ELSE "err"]
    /\ UNCHANGED db
FieldNames == DOMAIN FieldBits("page") \cup DOMAIN FieldBits("entry")
NextFlip ==
    /\ \/ \E p \in Pages : SerializePage(p)
       \/ \E e \in Entries : SerializeEntry(e)
       \/ \E f \in FieldNames, i \in 0..(3 * WordBits + OpBits + 2 * 2 ^ WordBits) :
             FlipBit(f, i)
       \/ \E j \in 1..(2 * MaxBytes) : FlipPayload(j)
       \/ ReadImage
    /\ UNCHANGED <<rtxn, cursor, call, held, pcache>>
SpecFlip == Init /\ [][NextFlip]_vars

\* ------------------------------------- specification: read transactions
\* puts, deletes and closes (checkpoints) while a read transaction is open
\* and reads
InitRead == Init
ReadKeys == 1..NumReadKeys
\* begin_read(): the handle captures the root page id
BeginRead ==
    /\ status = "open"
    /\ rtxn' = [state |-> "open", root_page_id |-> root_page_id, at |-> kv]
    /\ last' = Event("begin_read", TRUE)
    /\ UNCHANGED <<engine, wal, wal_sequence, status, now, kv, deadline, pre,
                   nops, txn, crash>>
\* what a read of the transaction leaves behind: the pages it loaded into
\* the engine's cache and its outcome
ReadDone(s, ev) ==
    /\ SetEngine(s)
    /\ last' = ev
    /\ UNCHANGED <<wal, wal_sequence, status, now, kv, deadline, pre, nops,
                   txn, crash, rtxn>>
\* txn.get(key, storage, cache) with the engine's storage and cache
ReadGet(k) ==
    LET Got(r) ==
            ReadDone(r.s, [op |-> "read_get", ok |-> r.result # Failed,
                           key |-> k, note |-> "", result |-> r.result])
    IN  /\ status = "open"
        /\ rtxn.state = "open"
        /\ Got(ReadTransaction_get(Cur, rtxn.root_page_id, k, now))
\* txn.scan(start_key, end_key, limit, storage, cache)
ReadScan(start_key, end_key, limit) ==
    LET ScanRead(r) ==
            ReadDone(r.s, [op |-> "read_scan", ok |-> r.ok, key |-> 0,
                           note |-> "", start |-> start_key, end |-> end_key,
                           limit |-> limit, result |-> r.results])
    IN  /\ status = "open"
        /\ rtxn.state = "open"
        /\ ScanRead(ReadTransaction_scan(Cur, rtxn.root_page_id, start_key,
                                        end_key, limit, now))
NextRead ==
    \/ /\ nops.writes < MaxReadOps
       /\ \/ \E k \in ReadKeys, v \in Values : Put(k, v)
          \/ \E k \in ReadKeys : Delete(k)
       /\ UNCHANGED <<image, rtxn, cursor, call, held, pcache>>
    \/ /\ nops.closes < MaxCloses
       /\ Close
       /\ UNCHANGED <<image, rtxn, cursor, call, held, pcache>>
    \/ /\ rtxn.state = "none"
       /\ BeginRead
       /\ UNCHANGED <<image, cursor, call, held, pcache>>
    \/ /\ \/ \E k \in ReadKeys : ReadGet(k)
          \/ ReadScan(0, NumReadKeys + 1, NumReadKeys)
       /\ UNCHANGED <<image, cursor, call, held, pcache>>
SpecRead == InitRead /\ [][NextRead]_vars

\* ------------------------------------ specification: write transactions
\* transactions one after the other: puts (valid ones, and ones with a key
\* or a value too long), deletes, commits and aborts, on active and on
\* finished handles
TxnKeys == 1..NumTxnKeys
BufferOp ==
    \/ \E k \in TxnKeys \cup {LongKey}, v \in {1, 2} : TxnPut(k, v)
    \/ \E k \in TxnKeys : TxnPut(k, HugeValue)
    \/ \E k \in TxnKeys : TxnDelete(k)
NextTxn ==
    /\ \/ txn.state # "active" /\ nops.writes < MaxCommits /\ BeginWrite
       \/ Len(txn.ops) < MaxTxnOps /\ BufferOp
       \/ Commit
       \/ Abort
    /\ UNCHANGED <<image, rtxn, cursor, call, held, pcache>>
SpecTxn == Init /\ [][NextTxn]_vars

\* ------------------------------------- specification: handlers by steps
\* The write handlers and close() run one statement at a time on a cache of
\* CacheCapacity pages.  A step is a storage call, an assignment of
\* wal_sequence, the apply of the operations or clear_dirty.
St(do, entries, to) == [do |-> do, entries |-> entries, to |-> to]
Do(do) == St(do, <<>>, 0)
\* a checkpoint that truncates the WAL before it writes the metadata slot
checkpoint_truncating_first ==
    <<Do("write_dirty"), Do("flush_data"), Do("truncate_wal"),
      Do("write_metadata"), Do("flush_data"), Do("sequence"),
      Do("clear_dirty")>>
\* checkpoint()
checkpoint_steps ==
    <<Do("write_dirty"), Do("flush_data"), Do("write_metadata"),
      Do("flush_data"), Do("truncate_wal"), Do("sequence"), Do("clear_dirty")>>
\* close(): flush(), then checkpoint()
close_steps == <<Do("flush_wal"), Do("flush_data")>> \o checkpoint_steps
\* a put_internal that applies before it flushes
put_internal_late(key, value, seq) ==
    <<St("sequence", <<>>, seq + 1),
      St("append_wal", <<new_put(seq + 1, key, value)>>, 0),
      St("sequence", <<>>, seq + 2),
      St("append_wal", <<new_commit(seq + 2)>>, 0),
      St("apply", <<new_put(seq + 1, key, value)>>, 0),
      Do("flush_wal"), Do("threshold")>>
\* put_internal after validate_key_value
put_internal_steps(key, value, seq) ==
    <<St("sequence", <<>>, seq + 1),
      St("append_wal", <<new_put(seq + 1, key, value)>>, 0),
      St("sequence", <<>>, seq + 2),
      St("append_wal", <<new_commit(seq + 2)>>, 0),
      Do("flush_wal"),
      St("apply", <<new_put(seq + 1, key, value)>>, 0),
      Do("threshold")>>
\* put_internal_no_sync after validate_key_value
put_internal_no_sync_steps(key, value, seq) ==
    <<St("sequence", <<>>, seq + 1),
      St("append_wal", <<new_put(seq + 1, key, value)>>, 0),
      St("sequence", <<>>, seq + 2),
      St("append_wal", <<new_commit(seq + 2)>>, 0),
      St("apply", <<new_put(seq + 1, key, value)>>, 0),
      Do("threshold")>>
delete_internal_steps(key, seq) ==
    <<St("sequence", <<>>, seq + 1),
      St("append_wal", <<new_delete(seq + 1, key)>>, 0),
      St("sequence", <<>>, seq + 2),
      St("append_wal", <<new_commit(seq + 2)>>, 0),
      Do("flush_wal"),
      St("apply", <<new_delete(seq + 1, key)>>, 0),
      Do("threshold")>>
\* put_batch_internal after the loop that validated and serialized the pairs
put_batch_internal_steps(pairs, seq) ==
    <<St("sequence", <<>>, seq + Len(pairs) + 1),
      St("append_wal", BatchBuffer(pairs, seq), 0),
      Do("flush_wal"),
      St("apply", SortByKey(SubSeq(BatchBuffer(pairs, seq), 1, Len(pairs))), 0),
      Do("threshold")>>
\* commit_transaction of a transaction that is active and has operations
commit_transaction_steps(ops, seq) ==
    <<St("append_wal", prepare_wal(ops, seq), 0),
      Do("flush_wal"),
      St("sequence", <<>>, seq + Len(ops) + 1),
      St("apply", ops, 0),
      Do("threshold")>>
\* the tree as the process holds it
TreeNow == <<cache, lru, dirty_set, root_page_id, next_page_id, free_page_ids>>
\* a handler starts: n operations to write, the steps to run
Begin(op, steps, n) ==
    /\ status = "open"
    /\ ~call.running
    /\ call' = [call EXCEPT !.running = TRUE, !.op = op, !.todo = steps,
                            !.done = <<>>, !.count = n, !.wal0 = wal,
                            !.seq0 = wal_sequence, !.tree0 = TreeNow,
                            !.flushed0 = call.wal_flushed]
    /\ UNCHANGED <<engine, wal, wal_sequence, status, now, kv, deadline, last,
                   pre, crash>>
BeginPut(k, v) ==
    /\ validate_key_value(k, wrap_raw_value(v))
    /\ Begin("put", put_internal_steps(k, wrap_raw_value(v), wal_sequence), 1)
    /\ nops' = Count("writes")
    /\ UNCHANGED txn
BeginPutWithTtl(k, v, ttl_ms) ==
    /\ now + ttl_ms < U64
    /\ validate_key_value(k, wrap_ttl_value(v, now + ttl_ms))
    /\ Begin("put_with_ttl",
             put_internal_steps(k, wrap_ttl_value(v, now + ttl_ms),
                                wal_sequence), 1)
    /\ nops' = Count("writes")
    /\ UNCHANGED txn
BeginPutNoSync(k, v) ==
    /\ validate_key_value(k, wrap_raw_value(v))
    /\ Begin("put_no_sync",
             put_internal_no_sync_steps(k, wrap_raw_value(v), wal_sequence), 1)
    /\ nops' = Count("writes")
    /\ UNCHANGED txn
BeginDelete(k) ==
    /\ Begin("delete", delete_internal_steps(k, wal_sequence), 1)
    /\ nops' = Count("writes")
    /\ UNCHANGED txn
BeginPutBatch(pairs) ==
    /\ \A i \in 1..Len(pairs) :
          validate_key_value(pairs[i].key, wrap_raw_value(pairs[i].value))
    /\ Begin("put_batch", put_batch_internal_steps(pairs, wal_sequence),
             Len(pairs))
    /\ nops' = Count("writes")
    /\ UNCHANGED txn
BeginCommit ==
    /\ txn.state = "active"
    /\ txn.ops # <<>>
    /\ Begin("commit", commit_transaction_steps(txn.ops, wal_sequence),
             Len(txn.ops))
    /\ txn' = [txn EXCEPT !.state = "committed", !.ops = <<>>]
    /\ nops' = Count("writes")
BeginClose ==
    /\ Begin("close", close_steps, 0)
    /\ nops' = Count("closes")
    /\ UNCHANGED txn
\* the handler after its next step, named do: it returns after the last one
Moved(do) ==
    [call EXCEPT !.done = Append(@, do), !.todo = Tail(@),
                 !.running = Len(call.todo) > 1]
\* the step left c behind; the handler returns Ok when it was the last one
StepDone(c) ==
    /\ call' = c
    /\ last' = IF c.running THEN last ELSE KeyEvent(call.op, TRUE, 0, "")
\* the operations es were applied with result r; an error ends the handler
Applied(r, es) ==
    /\ SetEngine(r.s)
    /\ IF r.ok
       THEN /\ kv' = ApplyToMap(kv, es)
            /\ StepDone(Moved("apply"))
       ELSE /\ kv' = kv
            /\ call' = [Moved("apply") EXCEPT !.running = FALSE, !.todo = <<>>]
            /\ last' = KeyEvent(call.op, FALSE, 0, "apply")
Step ==
    /\ call.running
    /\ \/ /\ Head(call.todo).do = "sequence"
          /\ wal_sequence' = Head(call.todo).to
          /\ StepDone(Moved("sequence"))
          /\ UNCHANGED <<engine, wal, kv>>
       \/ /\ Head(call.todo).do = "append_wal"
          /\ wal' = wal \o Head(call.todo).entries
          /\ StepDone(Moved("append_wal"))
          /\ UNCHANGED <<engine, wal_sequence, kv>>
       \/ /\ Head(call.todo).do = "flush_wal"
          /\ StepDone([Moved("flush_wal") EXCEPT !.wal_flushed = Len(wal)])
          /\ UNCHANGED <<engine, wal, wal_sequence, kv>>
       \/ /\ Head(call.todo).do = "apply"
          /\ Applied(ApplyEntries(Cur, Head(call.todo).entries),
                     Head(call.todo).entries)
          /\ UNCHANGED <<wal, wal_sequence>>
       \/ /\ Head(call.todo).do = "threshold"
          /\ StepDone(IF wal_size(wal) > WAL_CHECKPOINT_THRESHOLD
                      THEN [Moved("threshold") EXCEPT
                                !.todo = checkpoint_steps, !.running = TRUE]
                      ELSE Moved("threshold"))
          /\ UNCHANGED <<engine, wal, wal_sequence, kv>>
       \/ /\ Head(call.todo).do = "write_dirty"
          /\ data' = WriteDirty(data, cache, dirty_set)
          /\ SetCache(Visited(Cur.cache, WriteDirty(data, cache, dirty_set)))
          /\ StepDone(Moved("write_dirty"))
          /\ UNCHANGED <<root_page_id, next_page_id, free_page_ids, rebalanced,
                         wal, wal_sequence, kv>>
       \/ /\ Head(call.todo).do = "flush_data"
          /\ StepDone([Moved("flush_data") EXCEPT !.data_flushed = data])
          /\ UNCHANGED <<engine, wal, wal_sequence, kv>>
       \/ /\ Head(call.todo).do = "write_metadata"
          /\ data' = write_metadata(Cur, wal_sequence).data
          /\ StepDone([Moved("write_metadata") EXCEPT
                           !.slots = Append(@, write_metadata_slot(wal_sequence))])
          /\ UNCHANGED <<cache, lru, unsaved, dirty_set, root_page_id,
                         next_page_id, free_page_ids, rebalanced, wal,
                         wal_sequence, kv>>
       \/ /\ Head(call.todo).do = "truncate_wal"
          /\ wal' = <<>>
          /\ StepDone([Moved("truncate_wal") EXCEPT !.wal_flushed = 0])
          /\ UNCHANGED <<engine, wal_sequence, kv>>
       \/ /\ Head(call.todo).do = "clear_dirty"
          /\ SetCache(clear_dirty(Cur.cache))
          /\ StepDone(Moved("clear_dirty"))
          /\ UNCHANGED <<data, root_page_id, next_page_id, free_page_ids,
                         rebalanced, wal, wal_sequence, kv>>
    /\ UNCHANGED <<status, now, deadline, pre, nops, txn, crash>>
\* the operations a running commit_transaction was started with
CommitOps == SelectSeq(call.todo, LAMBDA st : st.do = "apply")[1].entries
\* the storage call a write handler is about to make, an append to the WAL
\* or its flush, returns an error and the handler returns it with `?`:
\* nothing reaches the file, wal_size stays, the remaining statements are
\* not run; a transaction keeps its operations and stays active
StepFails ==
    /\ call.running
    /\ call.op \in {"put", "put_with_ttl", "put_no_sync", "delete", "put_batch",
                    "commit"}
    /\ Head(call.todo).do \in {"append_wal", "flush_wal"}
    /\ call' = [call EXCEPT !.running = FALSE, !.todo = <<>>,
                            !.done = Append(@, "failed"),
                            !.failed = Append(@, [op |-> call.op,
                                                  do |-> Head(call.todo).do])]
    /\ last' = KeyEvent(call.op, FALSE, 0, "storage")
    /\ txn' = IF call.op = "commit"
              THEN [txn EXCEPT !.state = "active", !.ops = CommitOps]
              ELSE txn
    /\ UNCHANGED <<engine, wal, wal_sequence, kv, status, now, deadline, pre,
                   nops, crash>>
StepKeys == 1..NumStepKeys
StepPairs == {Pair(k, 2) : k \in StepKeys}
StepBatches == UNION {[1..n -> StepPairs] : n \in 1..MaxBatch}
InitSteps == Opened(CacheCapacity)
NextSteps ==
    /\ \/ /\ nops.writes < MaxStepWrites
          /\ \/ \E k \in StepKeys : BeginPut(k, 2)
             \/ \E k \in StepKeys : BeginPutWithTtl(k, 2, 1)
             \/ \E k \in StepKeys : BeginPutNoSync(k, 2)
             \/ \E k \in StepKeys : BeginDelete(k)
             \/ \E b \in StepBatches : BeginPutBatch(b)
             \/ BeginCommit
       \/ /\ nops.closes < MaxCloses
          /\ BeginClose
       \/ Step
       \/ /\ ~call.running
          /\ \/ txn.state # "active" /\ nops.writes < MaxStepWrites /\ BeginWrite
             \/ /\ txn.state = "active"
                /\ Len(txn.ops) < MaxTxnOps
                /\ \/ \E k \in StepKeys : TxnPut(k, 2)
                   \/ \E k \in StepKeys : TxnDelete(k)
          /\ UNCHANGED call
    /\ UNCHANGED <<image, rtxn, cursor, held, pcache>>
SpecSteps == InitSteps /\ [][NextSteps]_vars

\* ------------------------------------------- specification: validation
\* every write entry point is called with keys and values at and past the
\* limits; a transaction takes puts and is aborted
ValidKeys == {1, LongKey}
ValidValues == {1, MaxValue, HugeValue}
ValidBatches ==
    UNION {[1..n -> {Pair(k, v) : k \in ValidKeys, v \in ValidValues}] :
               n \in 1..MaxBatch}
NextValid ==
    /\ \/ /\ nops.writes < MaxValidOps
          /\ \/ \E k \in ValidKeys, v \in ValidValues : Put(k, v)
             \/ \E k \in ValidKeys, v \in ValidValues : PutWithTtl(k, v, 1)
             \/ \E k \in ValidKeys, v \in ValidValues : PutNoSync(k, v)
             \/ \E b \in ValidBatches : PutBatch(b)
       \/ txn.state # "active" /\ BeginWrite
       \/ /\ txn.state = "active"
          /\ Len(txn.ops) < MaxTxnOps
          /\ \E k \in ValidKeys, v \in ValidValues : TxnPut(k, v)
       \/ txn.state = "active" /\ Abort
    /\ UNCHANGED <<image, rtxn, cursor, call, held, pcache>>
SpecValid == Init /\ [][NextValid]_vars

\* ---------------------------------------------- specification: cursors
\* puts and deletes build a tree; a cursor is created on it, positioned by
\* cursor_first, cursor_last or cursor_seek and moved by cursor_next and
\* cursor_prev.  A cursor is used on the tree it was created on: a write
\* drops it.  Keys 1 and 2 get values that fill half a leaf, the others short
\* ones, so that leaves of one key and of several keys stand side by side.
\* A cursor moves in one direction and then may turn once.
CurKeys == 1..NumCurKeys
CurValue(k) == IF k <= 2 THEN 2 ELSE 1
Turned(trail) == \E i \in 2..(Len(trail) - 1) : trail[i].op # trail[i + 1].op
\* what a cursor call leaves behind: the pages it loaded, the cursor, and the
\* call with its outcome at the end of trail
CursorMoved(cr, trail, op, arg) ==
    /\ SetEngine(cr.s)
    /\ cursor' = [c |-> cr.c,
                  trail |-> Append(trail, [op |-> op, arg |-> arg, ok |-> cr.ok,
                                           valid |-> cr.c.valid,
                                           key |-> cr.c.key])]
    /\ UNCHANGED <<wal, wal_sequence, status, now, kv, deadline, last, pre,
                   nops, txn, crash>>
CursorFirst ==
    /\ status = "open"
    /\ CursorMoved(cursor_first_internal(Cur, root_page_id), <<>>, "first", 0)
CursorLast ==
    /\ status = "open"
    /\ CursorMoved(cursor_last_internal(Cur, root_page_id), <<>>, "last", 0)
CursorSeek(k) ==
    /\ status = "open"
    /\ CursorMoved(cursor_seek_internal(Cur, k, root_page_id), <<>>, "seek", k)
CursorNext ==
    /\ status = "open"
    /\ CursorMoved(cursor_next_internal(Cur, cursor.c, TRUE), cursor.trail,
                   "next", 0)
CursorPrev ==
    /\ status = "open"
    /\ CursorMoved(cursor_prev_internal(Cur, cursor.c), cursor.trail, "prev", 0)
NextCursor ==
    /\ \/ /\ nops.writes < MaxCurWrites
          /\ \/ \E k \in CurKeys : Put(k, CurValue(k))
             \/ \E k \in CurKeys : Delete(k)
          /\ cursor' = NoCursor
       \/ /\ cursor.trail = <<>>
          /\ \/ CursorFirst
             \/ CursorLast
             \/ \E k \in 0..(NumCurKeys + 1) : CursorSeek(k)
       \/ /\ cursor.trail # <<>>
          /\ Len(cursor.trail) <=
                IF cursor.trail[1].op = "seek" THEN MaxSeekSteps
                ELSE MaxCursorSteps
          /\ ~Turned(cursor.trail)
          /\ \/ CursorNext
             \/ CursorPrev
    /\ UNCHANGED <<image, rtxn, call, held, pcache>>
SpecCursor == Init /\ [][NextCursor]_vars

\* ------------------------------------- specification: WAL entry round trip
\* entries are built by the four constructors, written with to_bytes and read
\* back with from_bytes.  A value of Some(bytes) is the byte string, None the
\* empty one: to_bytes writes both as value_len 0 and no value bytes.
AnyBytes == {<<>>} \cup ByteStrings
WalEntry_new_put(sequence, key, value) ==
    [sequence |-> sequence, operation |-> "Put", key |-> key, value |-> value]
WalEntry_new_delete(sequence, key) ==
    [sequence |-> sequence, operation |-> "Delete", key |-> key, value |-> <<>>]
WalEntry_new_commit(sequence) ==
    [sequence |-> sequence, operation |-> "Commit", key |-> <<>>, value |-> <<>>]
WalEntry_new_checkpoint(sequence) ==
    [sequence |-> sequence, operation |-> "Checkpoint", key |-> <<>>,
     value |-> <<>>]
\* to_bytes of a built entry
ToBytes(e) ==
    /\ image.kind = "none"
    /\ image' = [kind |-> "built", entry |-> e, bytes |-> write_to_buffer(e),
                 read |-> "none", parsed |-> [ok |-> FALSE]]
    /\ UNCHANGED db
\* from_bytes of the bytes written
FromBytes ==
    /\ image.kind = "built"
    /\ image.read = "none"
    /\ image' = [image EXCEPT !.read = "done",
                              !.parsed = WalEntry_from_bytes(image.bytes)]
    /\ UNCHANGED db
\* the buffer is dropped
DropBytes ==
    /\ image.kind = "built"
    /\ image.read = "done"
    /\ image' = NoImage
    /\ UNCHANGED db
NextCodec ==
    /\ \/ \E q \in Sequences, k \in AnyBytes, v \in AnyBytes :
             ToBytes(WalEntry_new_put(q, k, v))
       \/ \E q \in Sequences, k \in AnyBytes : ToBytes(WalEntry_new_delete(q, k))
       \/ \E q \in Sequences : ToBytes(WalEntry_new_commit(q))
       \/ \E q \in Sequences : ToBytes(WalEntry_new_checkpoint(q))
       \/ FromBytes
       \/ DropBytes
    /\ UNCHANGED <<rtxn, cursor, call, held, pcache>>
SpecCodec == Init /\ [][NextCodec]_vars

\* ----------------------------------------- specification: overflow chains
\* puts of values stored inline, in a chain of one page and in a chain of
\* several pages, with deletes, gets and closes
OvfKeys == 1..NumOvfKeys
OvfValues == {2, 3, BigValue, SoftValue}
NextOvf ==
    /\ \/ /\ nops.writes < MaxOvfOps
          /\ \/ \E k \in OvfKeys, v \in OvfValues : Put(k, v)
             \/ \E k \in OvfKeys : Delete(k)
       \/ \E k \in OvfKeys : GetKey(k)
       \/ nops.closes < MaxCloses /\ Close
    /\ UNCHANGED <<image, rtxn, cursor, call, held, pcache>>
SpecOvf == Init /\ [][NextOvf]_vars

\* ------------------------------------------- specification: tree shapes
\* Enough puts and deletes over enough keys for leaves of three cells next
\* to leaves of two, so that a delete borrows from a sibling: a put writes a
\* short or a long inline value that the key does not hold yet, a delete
\* takes a key that was put
ShapeValues == {1, 2}
NextShape ==
    /\ nops.writes < MaxShapeOps
    /\ \/ \E k \in Keys, v \in ShapeValues : kv[k] # v /\ Put(k, v)
       \/ \E k \in Keys : kv[k] # None /\ Delete(k)
    /\ UNCHANGED <<image, rtxn, cursor, call, held, pcache>>
SpecShape == Init /\ [][NextShape]_vars

\* ------------------------------------------- specification: lookup paths
\* plain puts, puts with a TTL and deletes, checkpoints and clock ticks, and
\* then one point lookup: through the engine, through a read transaction
\* begun on the tree as it is, through a snapshot of it, or through a
\* read-only database opened on the checkpointed file
PathKeys == 1..NumReadKeys
Looked == last.op \in {"get", "read_get", "snapshot_get", "readonly_get"}
\* ReadSnapshot::new(root_page_id).get(key, storage, cache)
SnapshotGet(k) ==
    LET Got(r) ==
            ReadDone(r.s, [op |-> "snapshot_get", ok |-> TRUE, key |-> k,
                           note |-> "", result |-> r.results])
    IN  /\ status = "open"
        /\ Got(ReadSnapshot_get(Cur, root_page_id, k, now))
\* ReadOnlyDatabase::open(storage, root_page_id).get(key) on the file a
\* checkpoint left, nothing written since
ReadOnlyGet(k) ==
    /\ status = "open"
    /\ wal = <<>>
    /\ dirty_set = {}
    /\ last' = [op |-> "readonly_get", ok |-> TRUE, key |-> k, note |-> "",
                result |-> ReadOnlyDatabase_get(
                               ReadOnlyDatabase_open(data, root_page_id), k, now)]
    /\ UNCHANGED <<engine, wal, wal_sequence, status, now, kv, deadline, pre,
                   nops, txn, crash, rtxn>>
NextPaths ==
    \/ /\ nops.writes < MaxReadOps
       /\ ~Looked
       /\ rtxn.state = "none"
       /\ \/ \E k \in PathKeys, v \in ShapeValues : Put(k, v)
          \/ \E k \in PathKeys : PutWithTtl(k, 1, 0)
          \/ \E k \in PathKeys : Delete(k)
       /\ UNCHANGED <<image, rtxn, cursor, call, held, pcache>>
    \/ /\ ~Looked
       /\ rtxn.state = "none"
       /\ \/ nops.closes < MaxCloses /\ Close
          \/ now < MaxClock /\ Tick
          \/ \E k \in PathKeys : GetKey(k)
       /\ UNCHANGED <<image, rtxn, cursor, call, held, pcache>>
    \/ /\ ~Looked
       /\ \/ rtxn.state = "none" /\ BeginRead
          \/ \E k \in PathKeys : ReadGet(k)
          \/ rtxn.state = "none" /\ \E k \in PathKeys : SnapshotGet(k)
          \/ rtxn.state = "none" /\ \E k \in PathKeys : ReadOnlyGet(k)
       /\ UNCHANGED <<image, cursor, call, held, pcache>>
SpecPaths == Init /\ [][NextPaths]_vars

\* ------------------------------------- specification: storage failures
\* the write handlers and close() by steps, where up to MaxFails WAL storage
\* calls return an error, with a kill between two calls and the reopen;
\* the values are small (the tree stays one leaf) and a transaction holds
\* one operation
FailBatches == UNION {[1..n -> {Pair(k, 1) : k \in StepKeys}] : n \in 1..MaxBatch}
NextFail ==
    /\ \/ /\ nops.writes + nops.closes < MaxFailWrites
          /\ \/ \E k \in StepKeys : BeginPut(k, 1)
             \/ \E k \in StepKeys : BeginDelete(k)
             \/ \E b \in FailBatches : BeginPutBatch(b)
             \/ BeginCommit
             \/ BeginClose
       \/ Step
       \/ /\ Len(call.failed) < MaxFails
          /\ StepFails
       \/ /\ ~call.running
          /\ \/ /\ txn.state = "none"
                /\ nops.writes + nops.closes < MaxFailWrites
                /\ BeginWrite
             \/ /\ txn.state = "active"
                /\ txn.ops = <<>>
                /\ \/ \E k \in StepKeys : TxnPut(k, 1)
                   \/ \E k \in StepKeys : TxnDelete(k)
             \/ nops.kills < MaxKills /\ Kill
             \/ Reopen
          /\ UNCHANGED call
    /\ UNCHANGED <<image, rtxn, cursor, held, pcache>>
SpecFail == Init /\ [][NextFail]_vars

\* --------------------------------------- specification: WAL sequences
\* direct puts and deletes, batches, checkpoints, and two write transaction
\* handles that are begun, filled, committed and aborted in any order: the
\* calls go to the handle in txn, and Switch is the program turning to the
\* other handle
Switch ==
    /\ txn' = held
    /\ held' = txn
    /\ UNCHANGED <<engine, wal, wal_sequence, status, now, kv, deadline, last,
                   pre, nops, crash>>
SeqKeys == 1..NumSeqKeys
SeqBatches == UNION {[1..n -> {Pair(k, 1) : k \in SeqKeys}] : n \in 1..MaxBatch}
NextSeq ==
    \/ /\ nops.writes + nops.closes < MaxSeqOps
       /\ \/ \E k \in SeqKeys : Put(k, 1)
          \/ \E k \in SeqKeys : Delete(k)
          \/ \E b \in SeqBatches : PutBatch(b)
          \/ txn.state = "none" /\ BeginWrite
          \/ Close
          \/ /\ txn.state = "active"
             /\ \/ /\ Len(txn.ops) < MaxTxnOps
                   /\ \/ \E k \in SeqKeys : TxnPut(k, 1)
                      \/ \E k \in SeqKeys : TxnDelete(k)
                \/ Commit
                \/ Abort
       /\ UNCHANGED <<image, rtxn, cursor, call, held, pcache>>
    \/ /\ txn # held
       /\ Switch
       /\ UNCHANGED <<image, rtxn, cursor, call, pcache>>
SpecSeq == Init /\ [][NextSeq]_vars

\* ------------------------------------ specification: integrity check
\* verify_integrity: the ids from 2 up to the page count of the data file
\* whose image cannot be read or is refused by Page::from_bytes, ascending
verify_integrity(d) ==
    LET corrupt(page_id) ==
            ~read_page(d, page_id).ok
            \/ ~PageFromBytes(read_page(d, page_id).bytes).ok
        RECURSIVE Scan(_)
        Scan(page_id) ==
            IF page_id >= data_page_count(d) THEN <<>>
            ELSE (IF corrupt(page_id) THEN <<page_id>> ELSE <<>>)
                     \o Scan(page_id + 1)
    IN  Scan(2)
VerifyIntegrity ==
    /\ status = "open"
    /\ last' = [op |-> "verify_integrity", ok |-> TRUE, key |-> 0, note |-> "",
                result |-> verify_integrity(data)]
    /\ UNCHANGED <<engine, wal, wal_sequence, status, now, kv, deadline, pre,
                   nops, txn, crash>>
\* puts of values stored inline and in overflow chains, deletes and
\* checkpoints, with verify_integrity called in between
NextVerify ==
    /\ \/ /\ nops.writes < MaxOvfOps
          /\ \/ \E k \in OvfKeys, v \in OvfValues : Put(k, v)
             \/ \E k \in OvfKeys : Delete(k)
       \/ nops.closes < MaxCloses /\ Close
       \/ VerifyIntegrity
    /\ UNCHANGED <<image, rtxn, cursor, call, held, pcache>>
SpecVerify == Init /\ [][NextVerify]_vars

\* -------------------------------------- specification: PageCache calls
\* any calls of the PageCache methods on a cache of CacheCapacity pages
PageCacheCall(c, op) ==
    /\ pcache' = [c |-> c, last |-> op]
    /\ UNCHANGED <<db, image, rtxn, cursor, call, held>>
NextPageCache ==
    \/ \E i \in CachePageIds : PageCacheCall(PageCache_get(pcache.c, i), "get")
    \/ \E i \in CachePageIds :
          PageCacheCall(PageCache_get_mut(pcache.c, i), "get_mut")
    \/ \E page \in CachePages, dirty \in BOOLEAN :
          PageCacheCall(PageCache_insert(pcache.c, page, dirty), "insert")
    \/ \E i \in CachePageIds :
          PageCacheCall(PageCache_mark_dirty(pcache.c, i), "mark_dirty")
    \/ \E i \in CachePageIds :
          PageCacheCall(PageCache_mark_clean(pcache.c, i), "mark_clean")
    \/ \E i \in CachePageIds :
          PageCacheCall(PageCache_take_dirty_page(pcache.c, i), "take_dirty_page")
    \/ \E i \in CachePageIds :
          PageCacheCall(PageCache_remove(pcache.c, i), "remove")
    \/ PageCacheCall(PageCache_clear_dirty(pcache.c), "clear_dirty")
    \/ PageCacheCall(PageCache_clear(pcache.c), "clear")
SpecPageCache == Init /\ [][NextPageCache]_vars

\* ------------------------------------------ specification: the WAL reader
\* A WalReader is made over a byte buffer and next() is called on it until
\* it returns None.  The buffer is a run of serialized entries, some with a
\* damaged checksum, cut to its first len bytes.
ImageSize(bytes) == WAL_ENTRY_HEADER_SIZE + Len(bytes.payload)
RECURSIVE TotalSize(_)
TotalSize(images) ==
    IF images = <<>> THEN 0
    ELSE ImageSize(Head(images)) + TotalSize(Tail(images))
\* the entry image whose header starts at byte position of the buffer
HeaderAt(images, position) ==
    images[CHOOSE i \in 1..Len(images) :
               TotalSize(SubSeq(images, 1, i - 1)) = position]
WalReader_new(buffer) ==
    [kind |-> "reader", data |-> buffer, position |-> 0, item |-> "none"]
\* WalReader::next: the reader after the call, item being what it returned
\* (None, Some(Ok) or Some(Err))
WalReader_next(r) ==
    LET header == HeaderAt(r.data.images, r.position)
        entry_size ==
            WAL_ENTRY_HEADER_SIZE + header.key_len + header.value_len
    IN  IF r.position >= r.data.len
        THEN [r EXCEPT !.item = "None"]
        ELSE IF r.position + WAL_ENTRY_HEADER_SIZE > r.data.len
        THEN [r EXCEPT !.item = "Err"]
        ELSE IF r.position + entry_size > r.data.len
        THEN [r EXCEPT !.item = "Err"]
        ELSE [r EXCEPT !.position = @ + entry_size,
                       !.item = IF WalEntry_from_bytes(header).ok
                                THEN "Ok" ELSE "Err"]
NewReader(images, len) ==
    /\ image.kind = "none"
    /\ image' = WalReader_new([images |-> images, len |-> len])
    /\ UNCHANGED db
ReaderNext ==
    /\ image.kind = "reader"
    /\ image.item # "None"
    /\ image' = WalReader_next(image)
    /\ UNCHANGED db
\* the reader is dropped after it returned None
DropReader ==
    /\ image.kind = "reader"
    /\ image.item = "None"
    /\ image' = NoImage
    /\ UNCHANGED db
ReaderEntries ==
    {write_to_buffer(WalEntry_new_put(1, <<1>>, <<1, 0>>)),
     write_to_buffer(WalEntry_new_delete(2, <<1>>)),
     write_to_buffer(WalEntry_new_commit(3)),
     [write_to_buffer(WalEntry_new_put(1, <<1>>, <<1, 0>>))
          EXCEPT !.checksum = Flipped(@, 0)]}
ReaderBuffers == UNION {[1..n -> ReaderEntries] : n \in 0..MaxReaderEntries}
NextReader ==
    /\ \/ \E images \in ReaderBuffers :
             \E len \in 0..TotalSize(images) : NewReader(images, len)
       \/ ReaderNext
       \/ DropReader
    /\ UNCHANGED <<rtxn, cursor, call, held, pcache>>
SpecReader == Init /\ [][NextReader]_vars
\* the caller goes on calling next() as long as it has not returned None
SpecReaderFair ==
    /\ Init
    /\ [][NextReader]_vars
    /\ WF_vars(ReaderNext /\ UNCHANGED <<rtxn, cursor, call, held, pcache>>)

\* ----------------------------------------------------------------- claims
\* C1: after any sequence of successful puts and deletes, get(k) returns the
\* value of the most recent put on k not followed by a delete of k, and None
\* for every other key.
RoundTrip == status = "open" => \A k \in Keys : Get(k) = kv[k]

\* the kill came between two calls, right after a call that returned Ok
KilledAfter(ops) ==
    /\ last.op = "reopen"
    /\ crash.kind = "idle"
    /\ crash.after.op \in ops
    /\ crash.after.ok
\* every key reads as it did just before the kill
SameAsBefore == status = "open" /\ \A k \in Keys : Get(k) = pre[k]

\* C2: when the process is killed between two calls, after a sync-mode put,
\* delete, put_batch or transaction commit returned successfully, reopening
\* succeeds and every key reads as it did immediately before the kill.
DurableAfterKill ==
    KilledAfter({"put", "delete", "put_batch", "commit"}) => SameAsBefore

\* C3: after a successful close(), reopening from the data file with an
\* empty WAL yields for every key the same get result as before close.
DurableAfterClose ==
    (KilledAfter({"close"}) /\ crash.wal = <<>>) => SameAsBefore

\* the keys the operations ops touch
OpKeys(ops) == {ops[i].key : i \in 1..Len(ops)}
\* the process was killed inside a put_batch or a commit of several
\* operations and the database was reopened
CutInCall ==
    /\ last.op = "reopen"
    /\ status = "open"
    /\ crash.kind \in {"batch", "commit"}
    /\ Len(crash.ops) > 1

\* C4: when the process is killed during a put_batch or a transaction commit
\* of several operations (any prefix of the appended entries persisted, or
\* the trailing Commit damaged), then after reopening either every key of
\* the call reads as the call leaves it or every key of the call reads as
\* before the call.
AllOrNothing ==
    CutInCall =>
        \/ \A k \in OpKeys(crash.ops) : Get(k) = pre[k]
        \/ \A k \in OpKeys(crash.ops) : Get(k) = ApplyToMap(pre, crash.ops)[k]

\* every key that had a value before the kill still reads that value
KeptCommitted == \A k \in Keys : pre[k] \in Values => Get(k) = pre[k]

\* C5: when the process is killed during a checkpoint after some of the
\* dirty pages were written and before the metadata slot is written,
\* reopening succeeds and every key/value committed before the checkpoint
\* started is returned by get.
PagesKillKeepsCommitted ==
    (last.op = "reopen" /\ crash.kind = "pages") =>
        (status = "open" /\ KeptCommitted)

\* C6: when the process is killed while the checkpoint writes its metadata
\* slot (the slot is left torn) or right after that write and before the WAL
\* is truncated, reopening succeeds and every previously committed key/value
\* is returned by get.
MetaKillKeepsCommitted ==
    (last.op = "reopen" /\ crash.kind \in {"meta_torn", "meta_done"}) =>
        (status = "open" /\ KeptCommitted)

\* recover() returned rp on the WAL cut before its damaged entry: the reopen
\* on the damaged WAL has the same outcome
SameOutcome(rp) ==
    IF rp.ok
    THEN /\ status = "open"
         /\ \A k \in Keys : Get(k) = get_internal(rp.s, k, now).result
    ELSE status = "failed"

\* C7: when entry i of the WAL fails to parse, recovery applies exactly the
\* operations committed before entry i: reopening has the outcome of
\* reopening with the WAL cut before entry i, whatever follows entry i, and
\* does not fail unless that does.
ScanEndsAtBadEntry ==
    (last.op = "reopen" /\ crash.corrupt > 0) =>
        SameOutcome(recover(crash.data,
                            SubSeq(crash.wal, 1, crash.corrupt - 1)))

\* C8: when the checkpoint wrote its pages and its metadata and the process
\* died before the WAL was truncated, recovery starts from that metadata and
\* replays the WAL onto a tree that already holds its effects: every key
\* reads as it did before the kill.
ReplayIdempotent ==
    (/\ last.op = "reopen"
     /\ crash.kind = "meta_done"
     /\ crash.wal # <<>>
     /\ best_metadata(crash.data) = crash.meta) => SameAsBefore

\* a reopen on a WAL whose damaged entry has committed operations before it
\* and a Commit after it, the cut changing what some key reads
BadEntryCutsLog ==
    /\ last.op = "reopen"
    /\ status = "open"
    /\ crash.corrupt > 0
    /\ \E i \in 1..(crash.corrupt - 1) : crash.wal[i].operation = "Commit"
    /\ \E i \in (crash.corrupt + 1)..Len(crash.wal) :
          crash.wal[i].operation = "Commit"
    /\ \E k \in Keys : Get(k) \in Values
    /\ \E k \in Keys : Get(k) # pre[k]

\* the keys of a scan result, in result order
ResultKeys(result) == [i \in 1..Len(result) |-> result[i].key]
\* the ascending list of the elements of a set of keys
FirstOf(seq, n) == SubSeq(seq, 1, IF n < Len(seq) THEN n ELSE Len(seq))
\* the write-ahead log entries that wrote key k (the log is never truncated
\* where scans are checked, so the last of them is the key's last write)
LoggedWrites(k) ==
    {i \in 1..Len(wal) : wal[i].operation \in {"Put", "Delete"} /\ wal[i].key = k}
LastWrite(k) == wal[CHOOSE i \in LoggedWrites(k) : \A j \in LoggedWrites(k) : j <= i]
\* key k is stored and not expired: its last write put a value, and if that
\* write carried an expiry the clock has not passed it
Live(k) ==
    /\ kv[k] # None
    /\ LoggedWrites(k) # {}
    /\ LastWrite(k).operation = "Put"
    /\ LastWrite(k).value.t = "ttl" => now <= LastWrite(k).value.a
\* the stored, non-expired keys between a and b
StoredIn(a, b) == {k \in Keys : a <= k /\ k <= b /\ Live(k)}

\* C9: scan_range(start, end, limit) succeeds and returns exactly the first
\* limit stored, non-expired keys between start and end, in ascending order
\* and without duplicates.
ScanRangeOrdered ==
    last.op = "scan_range" =>
        /\ last.ok
        /\ ResultKeys(last.result) =
              FirstOf(Ascending(StoredIn(last.start, last.end)), last.limit)

\* key k, stored through an overflow chain, is in the range of the last scan
key_matches_prefix(k, prefix) == prefix.kind \in {"empty", "pad"} \/ prefix.key = k
InScan(k) ==
    IF last.op = "scan_range" THEN last.start <= k /\ k <= last.end
    ELSE key_matches_prefix(k, last.prefix)
OverflowKeys == {k \in Keys : Live(k) /\ ValLen(kv[k]) > OVERFLOW_THRESHOLD}

\* C10: a key whose value went to an overflow chain appears in the results
\* of scan_range and scan_prefix with the user value that was put (unless
\* scan_range stopped at its limit before reaching it).
ScansResolveOverflow ==
    (Scanned /\ last.ok) =>
        \A k \in OverflowKeys :
            InScan(k) =>
                \/ \E i \in 1..Len(last.result) : last.result[i] = KV(k, kv[k])
                \/ last.op = "scan_range" /\ Len(last.result) >= last.limit

\* the stored, non-expired keys that have prefix as a byte prefix
StoredWith(prefix) == {k \in Keys : key_matches_prefix(k, prefix) /\ Live(k)}

\* C11: scan_prefix(p) succeeds and returns exactly the stored, non-expired
\* keys that have p as a byte prefix, no key missing and no extra key, in
\* ascending order.
ScanPrefixExact ==
    last.op = "scan_prefix" =>
        /\ last.ok
        /\ ResultKeys(last.result) = Ascending(StoredWith(last.prefix))

\* the key's last write was a put_with_ttl that returned Ok
HasTtl(k) == kv[k] # None /\ deadline[k] # NoDeadline
\* the page a load of page id p gives: the cached one, else the stored one
PageView(c, d, p) ==
    IF p \in DOMAIN c THEN c[p] ELSE PageFromBytes(read_page(d, p).bytes).page
\* a step leaves the tree, the WAL and wal_sequence as they are: it may only
\* load pages into the cache or drop clean ones from it
TreeKept ==
    /\ UNCHANGED <<data, dirty_set, root_page_id, next_page_id, free_page_ids,
                   wal, wal_sequence>>
    /\ DOMAIN cache' \subseteq DOMAIN cache \cup DOMAIN data
    /\ \A p \in DOMAIN cache \cup DOMAIN data :
          PageView(cache', data', p) = PageView(cache, data, p)
\* what the reads return for keys written with a TTL
TtlReads ==
    /\ (last.op = "get" /\ HasTtl(last.key)) =>
          last.result = (IF now <= deadline[last.key] THEN kv[last.key]
                         ELSE None)
    /\ last.op \in {"scan_range", "scan_prefix"} =>
          /\ last.ok
          /\ \A i \in 1..Len(last.result) :
                HasTtl(last.result[i].key) => now <= deadline[last.result[i].key]

\* C12: for a key stored by put_with_ttl at clock value t with ttl d, get
\* returns the value while now <= t + d and None once now > t + d, the key
\* is then absent from scan_range and scan_prefix, and gets and scans leave
\* the tree, the WAL and wal_sequence unchanged.
TtlExpiry == []TtlReads /\ [][last'.op \in Reads => TreeKept]_vars

\* C13: for every serialized page image and every serialized WAL entry,
\* after one bit of the bytes was flipped the next from_bytes on them
\* returns an error
BitFlipDetected ==
    (image.flipped /\ image.read # "none") => image.read = "err"

\* C14: every page modified since the last checkpoint is held by the cache,
\* dirty and with its latest content, whatever was evicted from the LRU by
\* later loads and saves, and the next checkpoint writes it to the data
\* file with that content: right after close() no modified page is missing
\* from the data file
DirtyWritten ==
    /\ \A p \in DOMAIN unsaved :
          p \in dirty_set /\ p \in DOMAIN cache /\ cache[p] = unsaved[p]
    /\ last.op = "close" => DOMAIN unsaved = {}
\* a checkpoint wrote a dirty page that had been evicted from the LRU
SpilledPageWritten ==
    /\ last.op = "close"
    /\ last.note = "spilled"
    /\ DOMAIN unsaved = {}

\* C15: when insert evicts a dirty LRU victim the victim stays in the cache
\* (contains, is_dirty, get returns its page, len counts it: the insert of
\* a page not held makes len one larger); after clear_dirty no page is
\* dirty, the pages that were spilled are not contained and the pages in
\* the LRU are held with their page
VictimKept ==
    (last.op = "insert" /\ last.note = "dirty victim") =>
        /\ last.result.page_id \in DOMAIN cache
        /\ last.result.page_id \in dirty_set
        /\ cache[last.result.page_id] = last.result
        /\ ~InLru(lru, last.result.page_id)
CacheStep ==
    /\ (last'.op = "insert" /\ last'.note = "dirty victim"
            /\ last'.key \notin DOMAIN cache) =>
           Cardinality(DOMAIN cache') = Cardinality(DOMAIN cache) + 1
    /\ last'.op = "clear_dirty" =>
           /\ dirty_set' = {}
           /\ \A p \in DOMAIN cache :
                 IF InLru(lru, p)
                 THEN p \in DOMAIN cache' /\ cache'[p] = cache[p]
                 ELSE p \notin DOMAIN cache'
SpillRetained == []VictimKept /\ [][CacheStep]_vars
\* a dirty victim was evicted and is held outside the LRU
DirtyVictimSpilled ==
    /\ last.op = "insert"
    /\ last.note = "dirty victim"
    /\ last.result.page_id \in DOMAIN cache

\* C16: after any sequence of puts and deletes, every internal node that
\* can be reached from the root, as BTreeNode::from_page gives it from the
\* cached or stored page, has one child more than it has keys
NodeAt(p) == from_page(PageView(cache, data, p))
RECURSIVE Reachable(_)
Reachable(p) ==
    {p} \cup UNION {Reachable(NodeAt(p).children[i]) :
                       i \in 1..Len(NodeAt(p).children)}
ChildrenMatchKeys ==
    status = "open" =>
        \A p \in Reachable(root_page_id) :
            NodeAt(p).is_leaf
                \/ Len(NodeAt(p).children) = Len(NodeAt(p).keys) + 1

\* C17: immediately after a rebalancing operation (borrow from left, borrow
\* from right, merge with left, merge with right) completed for an
\* underflowing child during delete, every node it saved (the child and the
\* lending sibling, or the merged node) has at least MIN_KEYS_PER_NODE keys
RebalancedNodesFull ==
    \A i \in 1..Len(rebalanced) :
        \A j \in 1..Len(rebalanced[i].keys) :
            rebalanced[i].keys[j] >= MIN_KEYS_PER_NODE

\* C18: every get and every scan of a read transaction returns the state
\* committed when begin_read was called, whatever puts, deletes and
\* checkpoints the engine has done since
SnapshotPairs(at, start_key, end_key, limit) ==
    LET all == Ascending({k \in DOMAIN at :
                             k >= start_key /\ k <= end_key /\ at[k] # None})
    IN  [i \in 1..(IF Len(all) < limit THEN Len(all) ELSE limit) |->
            KV(all[i], at[all[i]])]
SnapshotStable ==
    /\ last.op = "read_get" => last.result = rtxn.at[last.key]
    /\ last.op = "read_scan" =>
           /\ last.ok
           /\ last.result = SnapshotPairs(rtxn.at, last.start, last.end,
                                          last.limit)

\* C19: abort drops the buffered operations and leaves the WAL, wal_sequence
\* and the tree as they are; on a transaction that was aborted or committed
\* every further put, delete or commit returns an error and leaves the
\* handle, the WAL, wal_sequence and the tree as they are
AbortStep ==
    last'.op = "abort" =>
        /\ txn'.ops = <<>>
        /\ txn'.state \in {"aborted", "committed"}
        /\ UNCHANGED <<engine, wal, wal_sequence, kv>>
FinishedStep ==
    (txn.state \in {"aborted", "committed"}
        /\ last'.op \in {"txn_put", "txn_delete", "commit"}) =>
        /\ ~last'.ok
        /\ UNCHANGED <<txn, engine, wal, wal_sequence, kv>>
FinishedInert == [][AbortStep /\ FinishedStep]_vars
\* a call on a committed transaction was refused, its operations in the WAL
RefusedAfterCommit ==
    /\ txn.state = "committed"
    /\ last.op \in {"txn_put", "txn_delete", "commit"}
    /\ ~last.ok
    /\ wal # <<>>

\* C20: a put of a write transaction that fails validation (key longer than
\* MAX_KEY_SIZE or value longer than MAX_VALUE_SIZE) returns the error and
\* leaves the transaction active with its buffer as it was; a valid put on
\* it is buffered, and the commit returns Ok and appends exactly the
\* buffered operations, numbered, and one Commit
InvalidPutStep ==
    (txn.state = "active" /\ last'.op = "txn_put"
        /\ (KeyBytes(last'.key) > MAX_KEY_SIZE
              \/ ValLen(last'.value) > MAX_VALUE_SIZE)) =>
        /\ ~last'.ok
        /\ txn'.state = "active"
        /\ txn'.ops = txn.ops
ValidPutStep ==
    (txn.state = "active" /\ last'.op = "txn_put"
        /\ KeyBytes(last'.key) <= MAX_KEY_SIZE
        /\ ValLen(last'.value) <= MAX_VALUE_SIZE) =>
        /\ last'.ok
        /\ txn'.state = "active"
        /\ txn'.ops = Append(txn.ops, [sequence |-> 0, operation |-> "Put",
                                       key |-> last'.key,
                                       value |-> wrap_raw_value(last'.value)])
CommitStep ==
    (txn.state = "active" /\ txn.retry = "retried" /\ last'.op = "commit") =>
        /\ last'.ok
        /\ Len(wal') = Len(wal) + Len(txn.ops) + 1
        /\ \A i \in 1..Len(txn.ops) :
              wal'[Len(wal) + i] =
                  [txn.ops[i] EXCEPT !.sequence = wal_sequence + i]
        /\ wal'[Len(wal')].operation = "Commit"
        /\ wal_sequence' = wal_sequence + Len(txn.ops) + 1
InvalidPutHarmless == [][InvalidPutStep /\ ValidPutStep /\ CommitStep]_vars

\* C21: after a put of a value whose wrapped form is longer than
\* OVERFLOW_THRESHOLD the leaf cell of the key is an overflow marker of
\* OVERFLOW_MARKER_SIZE bytes; the chain it names has pages of at most
\* OVERFLOW_DATA_SIZE data bytes, linked in order, the last with next_page 0;
\* reading it gives the image that was written, and get returns the value
LeafCell(k) == search_recursive(Cur, root_page_id, k)
ChainOf(marker) == read_overflow_chain(data, marker.a, marker.b, 0).chunks
ChainWritten(chunks, marker, v) ==
    /\ chunks # <<>>
    /\ \A i \in 1..Len(chunks) :
          /\ chunks[i].data_length <= OVERFLOW_DATA_SIZE
          /\ chunks[i].next_page =
                IF i < Len(chunks) THEN chunks[i + 1].page_id ELSE 0
    /\ chunks[1].page_id = marker.a
    /\ ChainIsImage(chunks, marker.b)
    /\ chunks[1].img = compress(wrap_raw_value(v))
Overflowing(v) == v # None /\ StoredLen(wrap_raw_value(v)) > OVERFLOW_THRESHOLD
OverflowStored(k) ==
    /\ LeafCell(k).found
    /\ is_overflow_marker(LeafCell(k).value)
    /\ StoredLen(LeafCell(k).value) = OVERFLOW_MARKER_SIZE
    /\ ChainWritten(ChainOf(LeafCell(k).value), LeafCell(k).value, kv[k])
    /\ Get(k) = kv[k]
OverflowRoundTrip ==
    /\ (last.op = "put" /\ last.ok /\ Overflowing(kv[last.key])) =>
           OverflowStored(last.key)
    /\ (last.op = "put" /\ last.ok /\ ~Overflowing(kv[last.key])) =>
           ~is_overflow_marker(LeafCell(last.key).value)
\* a value was put into a chain of several pages while another key holds a
\* chain of one page
ChainsOfOneAndMore ==
    /\ last.op = "put"
    /\ last.ok
    /\ Overflowing(kv[last.key])
    /\ Len(ChainOf(LeafCell(last.key).value)) > 1
    /\ \E k \in OvfKeys :
          /\ Overflowing(kv[k])
          /\ LeafCell(k).found
          /\ Len(ChainOf(LeafCell(k).value)) = 1

\* C22: an entry built by new_put, new_delete, new_commit or new_checkpoint
\* and written with to_bytes is read back by from_bytes: the read succeeds
\* (so the checksum verifies) and gives the same sequence, operation, key and
\* value
WalEntryRoundTrip ==
    (image.kind = "built" /\ image.read = "done") =>
        /\ image.parsed.ok
        /\ image.parsed.entry = image.entry

\* C23: on a well-formed tree (every internal node has one child more than
\* keys) cursor_first followed by cursor_next calls visits the stored keys in
\* ascending order, each once: call number i gives key number i, and every
\* call after the last key returns false and leaves the cursor invalid
StoredKeys == {k \in CurKeys : kv[k] # None}
WellFormed ==
    \A p \in Reachable(root_page_id) :
        NodeAt(p).is_leaf \/ Len(NodeAt(p).children) = Len(NodeAt(p).keys) + 1
RunOf(trail, first, step) ==
    /\ trail # <<>>
    /\ trail[1].op = first
    /\ \A i \in 2..Len(trail) : trail[i].op = step
Visits(trail, all) ==
    \A i \in 1..Len(trail) :
        /\ trail[i].ok
        /\ IF i <= Len(all) THEN trail[i].valid /\ trail[i].key = all[i]
           ELSE ~trail[i].valid
CursorVisitsAscending ==
    (WellFormed /\ RunOf(cursor.trail, "first", "next")) =>
        Visits(cursor.trail, Ascending(StoredKeys))
\* the cursor went over a root with three leaves, one of them with two keys,
\* and was moved twice more after the last key
WentOverLeaves(first, step) ==
    /\ WellFormed
    /\ RunOf(cursor.trail, first, step)
    /\ Len(cursor.trail) = Cardinality(StoredKeys) + 2
    /\ Len(NodeAt(root_page_id).children) = 3
    /\ \E p \in Reachable(root_page_id) :
          NodeAt(p).is_leaf /\ Len(NodeAt(p).keys) = 2
CursorWentForward == WentOverLeaves("first", "next")

\* C24: on a well-formed tree cursor_seek(k) returns true with the cursor on
\* the smallest stored key that is at least k, and false with an invalid
\* cursor when there is none; when k is a separator of the root and is
\* stored, the cursor went into the child to the right of the separator
Sought(k) == {j \in StoredKeys : j >= k}
SeparatorAt(node, k) == CHOOSE j \in 1..Len(node.keys) : node.keys[j] = k
SeekLands(e, c) ==
    /\ e.ok
    /\ e.valid = (Sought(e.arg) # {})
    /\ e.valid => e.key = SetMin(Sought(e.arg))
    /\ (/\ e.valid
        /\ e.key = e.arg
        /\ ~NodeAt(root_page_id).is_leaf
        /\ \E j \in 1..Len(NodeAt(root_page_id).keys) :
              NodeAt(root_page_id).keys[j] = e.arg) =>
           c.stack[1].key_index = SeparatorAt(NodeAt(root_page_id), e.arg)
SeekSmallestAtLeast ==
    (WellFormed /\ Len(cursor.trail) = 1 /\ cursor.trail[1].op = "seek") =>
        SeekLands(cursor.trail[1], cursor.c)
\* the key sought is greater than every key of the leaf the descent reached,
\* and the cursor moved on to the first key of the next leaf
SeekMovedOn ==
    /\ WellFormed
    /\ Len(cursor.trail) = 1
    /\ cursor.trail[1].op = "seek"
    /\ cursor.trail[1].valid
    /\ cursor.trail[1].key > cursor.trail[1].arg
    /\ Len(cursor.c.stack) = 2
    /\ cursor.c.stack[1].key_index >
          ChildIndex(NodeAt(root_page_id),
                     find_key_position(NodeAt(root_page_id), cursor.trail[1].arg),
                     cursor.trail[1].arg)

\* C25: on a well-formed tree cursor_last followed by cursor_prev calls
\* visits the stored keys in descending order, each once, and every call
\* after the first key returns false and leaves the cursor invalid; and a
\* successful cursor_next followed by cursor_prev, or a successful
\* cursor_prev followed by cursor_next, is back on the key it left
Backwards(seq) == [i \in 1..Len(seq) |-> seq[Len(seq) + 1 - i]]
ReturnsAfter(trail, n) ==
    (/\ n >= 3
     /\ trail[n - 2].valid
     /\ trail[n - 1].op \in {"next", "prev"}
     /\ trail[n - 1].valid
     /\ trail[n].op \in {"next", "prev"} \ {trail[n - 1].op}) =>
        /\ trail[n].ok
        /\ trail[n].valid
        /\ trail[n].key = trail[n - 2].key
PrevMirrorsNext ==
    WellFormed =>
        /\ RunOf(cursor.trail, "last", "prev") =>
               Visits(cursor.trail, Backwards(Ascending(StoredKeys)))
        /\ ReturnsAfter(cursor.trail, Len(cursor.trail))
\* the cursor went backwards from the last key to the first over a root with
\* three leaves, and then a cursor_next took it back over a leaf boundary
WentBackAndTurned ==
    /\ WellFormed
    /\ Len(cursor.trail) = Cardinality(StoredKeys) + 1
    /\ RunOf(SubSeq(cursor.trail, 1, Len(cursor.trail) - 1), "last", "prev")
    /\ cursor.trail[Len(cursor.trail)].op = "next"
    /\ cursor.trail[Len(cursor.trail)].valid
    /\ Len(NodeAt(root_page_id).children) = 3
    /\ Len(cursor.c.stack) = 2
    /\ cursor.c.stack[1].key_index = 1
    /\ cursor.c.stack[2].key_index = 0

\* C26: put, put_with_ttl, put_no_sync, put_batch and the put of a write
\* transaction accept a pair exactly when the key has at most MAX_KEY_SIZE
\* bytes and the user value at most MAX_VALUE_SIZE bytes (a batch: when all
\* its pairs do); a refused call returns the error, appends nothing to the
\* WAL and changes no page
Acceptable(k, v) == KeyBytes(k) <= MAX_KEY_SIZE /\ ValLen(v) <= MAX_VALUE_SIZE
Validated(acceptable) ==
    /\ (last'.note # "invalid") = acceptable
    /\ last'.note = "invalid" =>
          /\ ~last'.ok
          /\ wal' = wal
          /\ UNCHANGED <<data, cache, dirty_set, root_page_id, next_page_id>>
ValidationStep ==
    /\ \A k \in ValidKeys, v \in ValidValues :
          (\/ Put(k, v)
           \/ PutWithTtl(k, v, 1)
           \/ PutNoSync(k, v)
           \/ txn.state = "active" /\ TxnPut(k, v)) => Validated(Acceptable(k, v))
    /\ \A b \in ValidBatches :
          PutBatch(b) =>
              Validated(\A i \in 1..Len(b) : Acceptable(b[i].key, b[i].value))
SameLimitsEverywhere == [][ValidationStep]_vars

\* C27: while put, put_with_ttl, delete, put_batch or a
\* transaction commit runs, a page of the tree is modified in the cache only
\* after the Put/Delete entries of the call and one Commit entry, numbered
\* from wal_sequence + 1, were appended to the WAL and the WAL was flushed;
\* put_no_sync has appended the same entries and has not flushed
Appended == SubSeq(wal, Len(call.wal0) + 1, Len(wal))
EntriesThenCommit(new, n, seq0) ==
    /\ Len(new) = n + 1
    /\ \A i \in 1..Len(new) : new[i].sequence = seq0 + i
    /\ \A i \in 1..n : new[i].operation \in {"Put", "Delete"}
    /\ new[n + 1].operation = "Commit"
TreeTouched ==
    /\ call.running
    /\ call.op \in {"put", "put_with_ttl", "put_no_sync", "delete", "put_batch",
                   "commit"}
    /\ TreeNow # call.tree0
WalBeforeTree ==
    TreeTouched =>
        /\ SubSeq(wal, 1, Len(call.wal0)) = call.wal0
        /\ EntriesThenCommit(Appended, call.count, call.seq0)
        /\ call.wal_flushed =
              IF call.op = "put_no_sync" THEN call.flushed0 ELSE Len(wal)
\* a batch of two pairs was applied after its flush, and before it a
\* put_no_sync left its entries unflushed
TreeTouchedAfterFlush ==
    /\ TreeTouched
    /\ call.op = "put_batch"
    /\ call.count = 2
    /\ call.flushed0 < Len(call.wal0)

\* C28: the checkpoint of close() writes every dirty page, in the LRU or
\* spilled, flushes the data file, writes one metadata slot, flushes the
\* data file, truncates the WAL, in this order; when close returns Ok the
\* WAL is empty, wal_sequence is 0, no page is dirty and no page is spilled
IsPrefix(a, b) == Len(a) <= Len(b) /\ a = SubSeq(b, 1, Len(a))
CloseOrder ==
    <<"flush_wal", "flush_data", "write_dirty", "flush_data", "write_metadata",
      "flush_data", "truncate_wal", "sequence", "clear_dirty">>
DirtyWrittenTo(d) ==
    \A p \in call.tree0[3] : p \in DOMAIN d /\ d[p] = call.tree0[1][p]
MetadataWrittenTo(d) ==
    \E slot \in {METADATA_PAGE_ID_1, METADATA_PAGE_ID_2} :
        /\ slot \in DOMAIN d
        /\ d[slot] = Metadata(Cur, call.seq0)
        /\ \A p \in DOMAIN call.data_flushed \cup DOMAIN d :
              (p # slot /\ Len(call.done) = 5) =>
                  /\ p \in DOMAIN d
                  /\ p \in DOMAIN call.data_flushed
                  /\ d[p] = call.data_flushed[p]
CheckpointInOrder ==
    call.op = "close" =>
        /\ IsPrefix(call.done, CloseOrder)
        /\ Len(call.done) >= 3 => DirtyWrittenTo(data)
        /\ Len(call.done) >= 4 => DirtyWrittenTo(call.data_flushed)
        /\ Len(call.done) >= 5 => MetadataWrittenTo(data)
        /\ Len(call.done) >= 6 => MetadataWrittenTo(call.data_flushed)
        /\ Len(call.done) < 7 => wal = call.wal0
        /\ Len(call.done) >= 7 => wal = <<>>
        /\ ~call.running =>
              /\ last.ok
              /\ wal = <<>>
              /\ wal_sequence = 0
              /\ dirty_set = {}
              /\ \A p \in DOMAIN cache : InLru(lru, p)
\* close returned after a checkpoint that found a dirty page spilled and a
\* WAL with entries
ClosedWithSpill ==
    /\ call.op = "close"
    /\ ~call.running
    /\ call.wal0 # <<>>
    /\ \E p \in call.tree0[3] : ~InLru(call.tree0[2], p)

\* C29: when the process ends after a completed checkpoint, recover() on the
\* files it left selects the metadata that this checkpoint wrote: the
\* restored root_page_id, next_page_id and free list are the ones the
\* database had when the checkpoint ran, not those of an earlier checkpoint
RestoresLatest(r) ==
    /\ r.ok
    /\ r.s.root = root_page_id
    /\ r.s.next = next_page_id
    /\ r.s.free = free_page_ids
KillAfterCheckpoint ==
    (/\ status = "open"
     /\ status' = "down"
     /\ last.op = "close"
     /\ last.ok) => RestoresLatest(recover(data', wal'))
RecoverySelectsLatest == [][KillAfterCheckpoint]_vars

\* C30: a checkpoint writes its metadata into page 0 when wal_sequence is
\* even and into page 1 when it is odd, leaves the other slot as it was, and
\* never writes the slot that the checkpoint before it wrote
OtherSlot(p) == METADATA_PAGE_ID_1 + METADATA_PAGE_ID_2 - p
SlotByParity(p) ==
    /\ p = (IF wal_sequence % 2 = 0 THEN 0 ELSE 1)
    /\ data'[p] = Metadata(Cur, wal_sequence)
    /\ data'[OtherSlot(p)] = data[OtherSlot(p)]
MetadataWrite ==
    (call.running /\ Head(call.todo).do = "write_metadata") =>
        /\ SlotByParity(Last(call'.slots))
        /\ call.slots # <<>> => Last(call'.slots) # Last(call.slots)
SlotAlternates == [][MetadataWrite]_vars

\* C31: when a successful delete leaves the root page as an internal node
\* with no key and one child, the root becomes that child and every key that
\* is still stored is found by get
LeftWithOneChild(page) ==
    /\ page.page_type = 1
    /\ page.cells = <<>>
    /\ page.rightmost # 0
RootCollapse ==
    (/\ last'.op = "delete"
     /\ last'.ok
     /\ LeftWithOneChild(PageView(cache', data', root_page_id))) =>
        /\ root_page_id' = PageView(cache', data', root_page_id).rightmost
        /\ \A k \in Keys : Get(k)' = kv'[k]
RootCollapses == [][RootCollapse]_vars

\* C32: after any puts and deletes the tree under the root is a search tree:
\* the keys of a leaf ascend strictly, and under an internal node every key
\* below children[i] is < keys[i] and every key below children[i+1] is
\* >= keys[i]
RECURSIVE KeysUnder(_)
KeysUnder(p) ==
    {NodeAt(p).keys[i] : i \in 1..Len(NodeAt(p).keys)}
    \cup UNION {KeysUnder(NodeAt(p).children[i]) :
                   i \in 1..Len(NodeAt(p).children)}
StrictlyAscending(keys) ==
    \A i \in 1..Len(keys) - 1 : keys[i] < keys[i + 1]
SeparatorsSplit(node) ==
    \A i \in 1..Len(node.keys) :
        /\ i <= Len(node.children) =>
              \A k \in KeysUnder(node.children[i]) : k < node.keys[i]
        /\ i + 1 <= Len(node.children) =>
              \A k \in KeysUnder(node.children[i + 1]) : k >= node.keys[i]
SearchTree ==
    status = "open" =>
        \A p \in Reachable(root_page_id) :
            IF NodeAt(p).is_leaf
            THEN StrictlyAscending(NodeAt(p).keys)
            ELSE SeparatorsSplit(NodeAt(p))
\* a delete borrowed from a sibling and the root still has two leaves and
\* a separator
BorrowedUnderRoot ==
    /\ \E i \in 1..Len(rebalanced) :
          rebalanced[i].op \in {"borrow_from_left", "borrow_from_right"}
    /\ ~NodeAt(root_page_id).is_leaf
    /\ Len(NodeAt(root_page_id).keys) = 1
    /\ Len(NodeAt(root_page_id).children) = 2

\* C33: every node that a put or a delete saves fits in a page: on a tree
\* whose internal nodes all have one child more than keys, no put and no
\* delete of a valid key and value fails with BTreeOverflow
FitsInPage ==
    (/\ WellFormed
     /\ nops'.writes = nops.writes + 1
     /\ last'.op \in {"put", "delete"}
     /\ last'.note # "invalid") => last'.ok
NeverOverflows == [][FitsInPage]_vars

\* C34: on the same tree with no write in between, a get of a read
\* transaction, of a snapshot and of a read-only database returns for every
\* key what the engine's get returns
PathsAgree ==
    /\ last.op \in {"read_get", "readonly_get"} => last.result = Get(last.key)
    /\ last.op = "snapshot_get" => last.result = {Get(last.key)}

\* C35: at every moment the sequence numbers of the entries in the WAL file
\* are strictly increasing in file order, whatever the order of the direct
\* writes, the batches and the commits and aborts of the write transactions
WalAscending ==
    \A i \in 1..Len(wal) - 1 : wal[i].sequence < wal[i + 1].sequence
\* two transactions begun before any write were both committed with
\* operations, the second commit after the first
BothCommitted ==
    /\ nops.closes = 0
    /\ last.op = "commit"
    /\ last.ok
    /\ txn.state = "committed"
    /\ held.state = "committed"
    /\ txn.sequence_start = 0
    /\ held.sequence_start = 0
    /\ Len(SelectSeq(wal, LAMBDA e : e.operation = "Commit")) = 2

\* C36: a put, delete, put_batch or commit that returned an error because a
\* WAL append or the WAL flush failed has no effect: between two calls the
\* database shows for every key the value that the successful calls gave
\* it, also after later successful calls, a kill and the reopen
FailedHasNoEffect ==
    (status = "open" /\ ~call.running /\ call.failed # <<>>)
        => \A k \in StepKeys : Get(k) = kv[k]

\* C37: iterating a WalReader over a finite buffer terminates: a caller that
\* keeps calling next() gets None after finitely many calls, also when the
\* buffer ends in a truncated header or entry or holds an entry with a wrong
\* checksum
ReaderTerminates ==
    (image.kind = "reader") ~> (image.kind = "reader" /\ image.item = "None")

\* C38: allocate_page never returns 0 or 1 and never the id of a page in
\* use, a page reachable from the root or in an overflow chain that a stored
\* value names: every page in use has an id above 1 and below next_page_id
\* and is not in the free list, in every state between two calls, and so
\* after a recovery
ChainIds(stored_value) ==
    IF is_overflow_marker(stored_value)
    THEN {ChainOf(stored_value)[i].page_id :
              i \in 1..Len(ChainOf(stored_value))}
    ELSE {}
PagesInUse ==
    Reachable(root_page_id)
    \cup UNION {UNION {ChainIds(NodeAt(p).values[i]) :
                          i \in 1..Len(NodeAt(p).values)} :
                   p \in Reachable(root_page_id)}
AllocatesFresh ==
    status = "open" =>
        /\ next_page_id > 1
        /\ \A i \in 1..Len(free_page_ids) :
              free_page_ids[i] > 1 /\ free_page_ids[i] \notin PagesInUse
        /\ \A p \in PagesInUse : 1 < p /\ p < next_page_id

\* C39: after any sequence of PageCache calls the dirty-id set is exactly
\* the set of the ids whose entry, in the LRU or in the spill map, has its
\* dirty flag set, no id is in both the LRU and the spill map, and the LRU
\* holds at most capacity pages
FlaggedDirty(entries) == {x \in DOMAIN entries : entries[x].dirty}
CacheConsistent ==
    /\ pcache.c.dirty_set
           = FlaggedDirty(pcache.c.pages) \cup FlaggedDirty(pcache.c.spilled)
    /\ DOMAIN pcache.c.pages \cap DOMAIN pcache.c.spilled = {}
    /\ Cardinality(DOMAIN pcache.c.pages) <= pcache.c.cap
\* a dirty page was pushed out of a full LRU into the spill map and then
\* taken from there, while the LRU is full and holds a dirty page
SpilledAndTaken ==
    /\ pcache.last = "take_dirty_page"
    /\ Cardinality(DOMAIN pcache.c.pages) = pcache.c.cap
    /\ \E x \in DOMAIN pcache.c.spilled : ~pcache.c.spilled[x].dirty
    /\ \E x \in DOMAIN pcache.c.pages : pcache.c.pages[x].dirty

\* C40: on a database whose data file was not damaged verify_integrity
\* returns an empty list after any puts, deletes and checkpoints, also when
\* the file holds overflow pages and allocated pages not yet written
IntegrityClean ==
    last.op = "verify_integrity" => last.result = <<>>
====
